---- MODULE Spec2Model ----
(***************************************************************************)
(* A model of fansiterm: a virtual ANSI terminal that interprets a byte    *)
(* stream and renders into a pixel surface.  The model follows the device  *)
(* (vterm.go), the escape framer and dispatcher (ansi.go, escCSI.go,       *)
(* escFansi.go), the screen primitives (color_ansi.go, rgb.go) and the     *)
(* write pump (queueHandler_tick.go).                                      *)
(*                                                                         *)
(* Runes are integers (code points), rune slices are sequences.  The       *)
(* surface is modelled at cell granularity: one value per character cell,  *)
(* plus a ring of margin cells standing for the pixels of the surface that *)
(* lie outside the terminal's render bounds.                               *)
(***************************************************************************)
EXTENDS Integers, Sequences, FiniteSets, TLC

(* ------------------------------ bounds --------------------------------- *)
\* terminal size in cells
Cols == 2
Rows == 3
\* longest pending escape sequence kept in inputBuf by the model
MaxBuf == 6
\* the model stops feeding printables once col has run this far past cols
MaxOver == 2
\* number of Write calls the producers of the pump issue
MaxCalls == 3
\* capacity of the write queue
MaxQueue == 2
\* number of Write calls before a piecewise delivery
MaxPrelude == 2
\* number of Write calls of one behaviour
MaxWrites == 4
\* longest input handed to the framer on its own
MaxFrame == 4

(* --------------------------- program constants ------------------------- *)
TabSize == 8
CellW == 8
CellH == 16
\* centering offset of the render bounds inside the surface, in pixels
OffX == 2
OffY == 3

(* ------------------------------- runes --------------------------------- *)
BEL == 7
BS == 8
HT == 9
LF == 10
VT == 11
FF == 12
CR == 13
SO == 14
SI == 15
ESC == 27
DEL == 127
chSemi == 59
chQuest == 63
chLBrack == 91
chBackslash == 92
chRBrack == 93
chLParen == 40
chRParen == 41
chSlash == 47
chMinus == 45
chPlus == 43
ch0 == 48
chA == 65
\* a double-width rune (CJK ideograph) and a zero-width combining mark
chWide == 19968
chComb == 769

Min2(a, b) == IF a < b THEN a ELSE b
Max2(a, b) == IF a > b THEN a ELSE b

bound(x, minimum, maximum) == Min2(Max2(x, minimum), maximum)

\* Go's slice expression s[lo:hi] on a 0-indexed slice
Slice(s, lo, hi) == SubSeq(s, lo + 1, hi)

(* --------------------------- escape framer ----------------------------- *)
\* an ST scan that a line feed ends as well
RECURSIVE ScanSTOrLF(_, _)
ScanSTOrLF(data, n) ==
    IF n >= Len(data) THEN [n |-> 0, ok |-> FALSE]
    ELSE IF n = 2 /\ data[n + 1] = 82 /\ data[n] = chRBrack
         THEN [n |-> n + 2, ok |-> TRUE]
    ELSE IF data[n + 1] \in {BEL, LF} \/ (data[n] = ESC /\ data[n + 1] = chBackslash)
         THEN [n |-> n + 1, ok |-> TRUE]
    ELSE ScanSTOrLF(data, n + 1)

\* the ST scan of consumeEscSequence, n is the 0-based loop index
RECURSIVE ScanST(_, _)
ScanST(data, n) ==
    IF n >= Len(data) THEN [n |-> 0, ok |-> FALSE]
    ELSE IF n = 2 /\ data[n + 1] = 82 /\ data[n] = chRBrack
         THEN [n |-> n + 2, ok |-> TRUE]
    ELSE IF data[n + 1] = BEL \/ (data[n] = ESC /\ data[n + 1] = chBackslash)
         THEN [n |-> n + 1, ok |-> TRUE]
    ELSE ScanST(data, n + 1)

\* the CSI scan of consumeEscSequence
RECURSIVE ScanCSI(_, _)
ScanCSI(data, n) ==
    IF n >= Len(data) THEN [n |-> 0, ok |-> FALSE]
    ELSE IF data[n + 1] >= 64 THEN [n |-> n + 1, ok |-> TRUE]
    ELSE ScanCSI(data, n + 1)

\* a framer that takes the byte after an unsupported ESC x into the sequence
consumeEscSequenceSwallow(data) ==
    IF Len(data) < 2 THEN [n |-> 0, ok |-> FALSE]
    ELSE IF data[2] \in {88, chRBrack, 80, chSlash} THEN ScanST(data, 1)
    ELSE IF data[2] = chLBrack THEN ScanCSI(data, 2)
    ELSE IF data[2] \in {chLParen, chRParen}
         THEN IF Len(data) < 3 THEN [n |-> 0, ok |-> FALSE]
              ELSE [n |-> 3, ok |-> TRUE]
    ELSE IF Len(data) < 3 THEN [n |-> 2, ok |-> TRUE]
    ELSE [n |-> 3, ok |-> TRUE]

\* consumeEscSequence: where the escape sequence starting at data[0] = ESC
\* ends; ok = FALSE is errEscapeSequenceIncomplete
consumeEscSequence(data) ==
    IF Len(data) < 2 THEN [n |-> 0, ok |-> FALSE]
    ELSE IF data[2] \in {88, chRBrack, 80, chSlash} THEN ScanST(data, 1)
    ELSE IF data[2] = chLBrack THEN ScanCSI(data, 2)
    ELSE IF data[2] \in {chLParen, chRParen}
         THEN IF Len(data) < 3 THEN [n |-> 0, ok |-> FALSE]
              ELSE [n |-> 3, ok |-> TRUE]
    ELSE [n |-> 2, ok |-> TRUE]

(* --------------------------- argument parsing -------------------------- *)
\* splitParams: break data apart at ';'
RECURSIVE splitFrom(_, _, _)
splitFrom(data, prev, i) ==
    IF i > Len(data) THEN << SubSeq(data, prev, Len(data)) >>
    ELSE IF data[i] = chSemi
         THEN << SubSeq(data, prev, i - 1) >> \o splitFrom(data, i + 1, i + 1)
         ELSE splitFrom(data, prev, i + 1)

splitParams(data) == splitFrom(data, 1, 1)

IsDigits(s) == Len(s) > 0 /\ \A k \in 1..Len(s) : s[k] \in 48..57

RECURSIVE DigitsVal(_)
DigitsVal(s) ==
    IF Len(s) = 0 THEN 0
    ELSE 10 * DigitsVal(SubSeq(s, 1, Len(s) - 1)) + (s[Len(s)] - 48)

\* strconv.Atoi: an optional sign followed by decimal digits
AtoiOk(s) ==
    \/ IsDigits(s)
    \/ Len(s) > 1 /\ s[1] \in {chMinus, chPlus} /\ IsDigits(Tail(s))

AtoiVal(s) ==
    IF IsDigits(s) THEN DigitsVal(s)
    ELSE IF s[1] = chMinus THEN 0 - DigitsVal(Tail(s))
    ELSE DigitsVal(Tail(s))

\* getNumericArgs: one integer per ';'-separated piece, def where Atoi fails
getNumericArgs(seq, def) ==
    LET parts == splitParams(seq)
    IN [k \in 1..Len(parts) |->
           IF AtoiOk(parts[k]) THEN AtoiVal(parts[k]) ELSE def]

\* trimST: drop a trailing BEL or ESC \
trimST(seq) ==
    IF seq[Len(seq)] = BEL THEN SubSeq(seq, 1, Len(seq) - 1)
    ELSE IF Len(seq) >= 2 /\ seq[Len(seq) - 1] = ESC /\ seq[Len(seq)] = chBackslash
         THEN SubSeq(seq, 1, Len(seq) - 2)
    ELSE seq

(* ------------------------------ geometry ------------------------------- *)
\* image.Rectangle as [x0, y0, x1, y1] = Min.X, Min.Y, Max.X, Max.Y
Rect(a, b, c, d) == [x0 |-> a, y0 |-> b, x1 |-> c, y1 |-> d]

\* image.Rect: the canonical rectangle through two corner points
CanonRect(a, b, c, d) == Rect(Min2(a, c), Min2(b, d), Max2(a, c), Max2(b, d))

ZR == Rect(0, 0, 0, 0)

RectEmpty(r) == r.x0 >= r.x1 \/ r.y0 >= r.y1

RectAdd(r, dx, dy) == Rect(r.x0 + dx, r.y0 + dy, r.x1 + dx, r.y1 + dy)

\* image.Rectangle.Intersect
RectIntersect(r, s) ==
    LET t == Rect(Max2(r.x0, s.x0), Max2(r.y0, s.y0),
                  Min2(r.x1, s.x1), Min2(r.y1, s.y1))
    IN IF RectEmpty(t) THEN ZR ELSE t

\* image.Rectangle.Eq: equal, or both empty
RectEq(r, s) == r = s \/ (RectEmpty(r) /\ RectEmpty(s))

RectIn(r, s) ==
    RectEmpty(r) \/ (s.x0 <= r.x0 /\ r.x1 <= s.x1 /\ s.y0 <= r.y0 /\ r.y1 <= s.y1)

\* the surface handed to New and the render bounds New derives from it
SurfaceBounds == Rect(0, 0, CellW * Cols + 2 * OffX, CellH * Rows + 2 * OffY)

RenderBounds == RectAdd(Rect(0, 0, CellW * Cols, CellH * Rows), OffX, OffY)

\* the pixel rectangle of cell (c, r)
CellRect(c, r) ==
    RectAdd(Rect(0, 0, CellW, CellH), OffX + CellW * c, OffY + CellH * r)

(* ------------------------------- surface ------------------------------- *)
\* the cells of the terminal and the ring of partial cells around them that
\* the surface still holds
GridCells == (0..(Cols - 1)) \X (0..(Rows - 1))
SurfaceCells ==
    {p \in ((0 - 1)..Cols) \X ((0 - 1)..Rows) :
        ~RectEmpty(RectIntersect(CellRect(p[1], p[2]), SurfaceBounds))}

\* what a cell shows: rune r drawn from tile set ts in fg over bg, the line
\* overlays in deco, inv when the cursor is painted on it, over when a fill
\* covered only part of the cell
HostColor == <<0 - 1, 0 - 1, 0 - 1>>
NoColor == <<0 - 2, 0 - 2, 0 - 2>>
\* color.Alpha{0}, the background a combining mark is drawn over
Transparent == <<0 - 3, 0 - 3, 0 - 3>>

HostPixels ==
    [r |-> 0 - 1, ts |-> "host", fg |-> HostColor, bg |-> HostColor,
     deco |-> {}, inv |-> FALSE, over |-> NoColor]

Blank(c) ==
    [r |-> 0, ts |-> "none", fg |-> c, bg |-> c,
     deco |-> {}, inv |-> FALSE, over |-> NoColor]

\* Render.fill on a region already clipped to the render bounds
FillCells(scr, region, c) ==
    [p \in DOMAIN scr |->
        LET cr == RectIntersect(CellRect(p[1], p[2]), SurfaceBounds)
        IN IF RectEmpty(region) \/ RectEmpty(RectIntersect(cr, region))
           THEN scr[p]
           ELSE IF RectIn(cr, region) THEN Blank(c)
           ELSE [scr[p] EXCEPT !.over = c]]

\* Render.Fill: translate by the render origin, clip to the render bounds
RenderFill(scr, region, c) ==
    FillCells(scr,
              RectIntersect(RectAdd(region, RenderBounds.x0, RenderBounds.y0),
                            RenderBounds),
              c)

\* Device.Clear: a block of background in units of cells
ClearCells(scr, x1, y1, x2, y2, bg) ==
    RenderFill(scr, CanonRect(x1 * CellW, y1 * CellH, x2 * CellW, y2 * CellH), bg)

\* Device.clearAll
clearAllCells(scr, bg) == RenderFill(scr, RenderBounds, bg)

\* the cells a pixel region covers, as [c0, r0, c1, r1) in cell units, for a
\* region aligned with the cell grid
CellSpan(region) ==
    [c0 |-> (region.x0 - OffX + CellW) \div CellW - 1,
     r0 |-> (region.y0 - OffY + CellH) \div CellH - 1,
     c1 |-> (region.x1 - OffX + CellW - 1) \div CellW,
     r1 |-> (region.y1 - OffY + CellH - 1) \div CellH]

\* an in-place copy that runs from the top left whatever the direction
RECURSIVE vsStepForward(_, _, _, _, _)
vsStepForward(scr, sp, dc, dr, k) ==
    LET w == sp.c1 - sp.c0
        h == sp.r1 - sp.r0
    IN IF k >= w * h THEN scr
       ELSE LET dy == sp.r0 + (k \div w)
                dx == sp.c0 + (k % w)
                sx == sp.c0 + ((dx + dc - sp.c0) % w)
                sy == sp.r0 + ((dy + dr - sp.r0) % h)
            IN vsStepForward([scr EXCEPT ![<<dx, dy>>] = scr[<<sx, sy>>]],
                             sp, dc, dr, k + 1)

\* softVectorScroll, in cell units: an in-place copy in the loop's order,
\* the source wrapping around inside the region
RECURSIVE vsStep(_, _, _, _, _)
vsStep(scr, sp, dc, dr, k) ==
    LET w == sp.c1 - sp.c0
        h == sp.r1 - sp.r0
    IN IF k >= w * h THEN scr
       ELSE LET y == k \div w
                x == k % w
                dy == IF dr >= 0 THEN sp.r0 + y ELSE sp.r1 - (y + 1)
                dx == IF dc >= 0 THEN sp.c0 + x ELSE sp.c1 - (x + 1)
                sx == sp.c0 + ((dx + dc - sp.c0) % w)
                sy == sp.r0 + ((dy + dr - sp.r0) % h)
            IN vsStep([scr EXCEPT ![<<dx, dy>>] = scr[<<sx, sy>>]],
                      sp, dc, dr, k + 1)

softVectorScroll(scr, region, vx, vy) ==
    LET rg == RectIntersect(SurfaceBounds, region)
    IN IF RectEmpty(rg) THEN scr
       ELSE vsStep(scr, CellSpan(rg), vx \div CellW, vy \div CellH, 0)

(* -------------------------------- colors ------------------------------- *)
\* NewColorSystem: the ANSI palette, as RGB triples
PaletteANSI ==
    << <<0, 0, 0>>, <<127, 0, 0>>, <<0, 170, 0>>, <<170, 85, 0>>,
       <<0, 0, 170>>, <<170, 0, 170>>, <<0, 170, 170>>, <<200, 200, 200>>,
       <<85, 85, 85>>, <<255, 0, 0>>, <<85, 255, 85>>, <<255, 255, 85>>,
       <<85, 85, 255>>, <<255, 85, 255>>, <<85, 255, 255>>, <<255, 255, 255>> >>

\* PaletteANSI[i] with Go's 0-based index
ansi(i) == PaletteANSI[i + 1]

Palette256Low ==
    << <<0, 0, 0>>, <<128, 0, 0>>, <<0, 128, 0>>, <<128, 128, 0>>,
       <<0, 0, 128>>, <<128, 0, 128>>, <<0, 128, 128>>, <<192, 192, 192>>,
       <<128, 128, 128>>, <<255, 0, 0>>, <<0, 255, 0>>, <<255, 255, 0>>,
       <<0, 0, 255>>, <<255, 0, 255>>, <<0, 255, 255>>, <<255, 255, 255>> >>

CubeLevel(k) == IF k = 0 THEN 0 ELSE 55 + 40 * k

\* Palette256[n] for 0 <= n <= 255: 16 base colors, the 6x6x6 cube, the grays
palette256(n) ==
    IF n < 16 THEN Palette256Low[n + 1]
    ELSE IF n < 232
         THEN << CubeLevel((n - 16) \div 36), CubeLevel(((n - 16) \div 6) % 6),
                 CubeLevel((n - 16) % 6) >>
    ELSE << 8 + 10 * (n - 232), 8 + 10 * (n - 232), 8 + 10 * (n - 232) >>

\* uint8(x) of a Go int
uint8(x) == x % 256

(* ------------------------------- device -------------------------------- *)
\* A device value d is a record of the Device fields the model tracks:
\*   cursor, attr, scrollRegion, scrollArea, active, config, inputBuf,
\*   saveBuf, screen (the surface), output (replies written to Output by the
\*   latest Write), dispatched (escape sequences handed to HandleEscSequence
\*   by the latest Write), bells, panicked (a Go panic aborted the program).

\* attrDefault as New establishes it
attrDefault ==
    [Bold |-> FALSE, Underline |-> FALSE, DoubleUnderline |-> FALSE,
     Strike |-> FALSE, Blink |-> FALSE, Reversed |-> FALSE, Italic |-> FALSE,
     Conceal |-> FALSE, Fg |-> ansi(7), Bg |-> ansi(0)]

\* ConfigDefault
ConfigDefault ==
    [TabSize |-> TabSize, BoldColors |-> TRUE, AltScreen |-> FALSE,
     Wraparound |-> FALSE, CursorKeyApplicationMode |-> FALSE]

\* Cursor.MoveRel
MoveRel(d, x, y) ==
    [d EXCEPT !.cursor.col = bound(x + d.cursor.col, 0, Cols - 1),
              !.cursor.row = bound(y + d.cursor.row, 0, Rows - 1)]

\* Cursor.MoveAbs
MoveAbs(d, x, y) ==
    [d EXCEPT !.cursor.col = bound(x, 0, Cols - 1),
              !.cursor.row = bound(y, 0, Rows - 1)]

\* Cursor.ToggleAltPos: swap the position with the other screen's.  Nothing
\* in the sources calls it
ToggleAltPos(d) ==
    [d EXCEPT !.cursor.altPos = <<d.cursor.col, d.cursor.row>>,
              !.cursor.col = d.cursor.altPos[1],
              !.cursor.row = d.cursor.altPos[2]]

\* Cursor.SavePos
SavePos(d) == [d EXCEPT !.cursor.prevPos = <<d.cursor.col, d.cursor.row>>]

\* Cursor.RestorePos
RestorePos(d) ==
    [d EXCEPT !.cursor.col = d.cursor.prevPos[1],
              !.cursor.row = d.cursor.prevPos[2]]

\* Cursor.ColsRemaining
ColsRemaining(d) == Cols - d.cursor.col

\* Device.cursorPt
cursorPt(d) ==
    [x |-> RenderBounds.x0 + CellW * d.cursor.col,
     y |-> RenderBounds.y0 + CellH * d.cursor.row]

\* an updateAttr that looks at G0 whatever the shift
updateAttrG0(d) ==
    LET fg == IF d.attr.Reversed THEN d.attr.Bg ELSE d.attr.Fg
        bg == IF d.attr.Reversed THEN d.attr.Fg ELSE d.attr.Bg
        sel == d.active.g[1]
        ts == IF sel = "CharSet"
              THEN IF d.attr.Bold THEN "BoldCharSet"
                   ELSE IF d.attr.Italic THEN "ItalicCharSet"
                   ELSE sel
              ELSE IF d.attr.Bold THEN "AltCharSet+BoldCharSet"
                   ELSE IF d.attr.Italic THEN "AltCharSet+ItalicCharSet"
                   ELSE "AltCharSet"
    IN [d EXCEPT !.active.fg = fg, !.active.bg = bg, !.active.tileSet = ts]

\* Device.updateAttr: derive the active colors and the active tile set
updateAttr(d) ==
    LET fg == IF d.attr.Reversed THEN d.attr.Bg ELSE d.attr.Fg
        bg == IF d.attr.Reversed THEN d.attr.Fg ELSE d.attr.Bg
        sel == d.active.g[d.active.shift + 1]
        ts == IF sel = "CharSet"
              THEN IF d.attr.Bold THEN "BoldCharSet"
                   ELSE IF d.attr.Italic THEN "ItalicCharSet"
                   ELSE sel
              ELSE IF sel = "AltCharSet"
              THEN IF d.attr.Bold THEN "AltCharSet+BoldCharSet"
                   ELSE IF d.attr.Italic THEN "AltCharSet+ItalicCharSet"
                   ELSE "AltCharSet"
              ELSE d.active.tileSet
    IN [d EXCEPT !.active.fg = fg, !.active.bg = bg, !.active.tileSet = ts]

\* Device.Clear
Clear(d, x1, y1, x2, y2) ==
    [d EXCEPT !.screen = ClearCells(d.screen, x1, y1, x2, y2, d.attr.Bg)]

\* Device.clearAll
clearAll(d) == [d EXCEPT !.screen = clearAllCells(d.screen, d.attr.Bg)]

\* Render.VectorScroll, bound by New to softVectorScroll on the surface
VectorScroll(d, region, vx, vy) ==
    [d EXCEPT !.screen = softVectorScroll(d.screen, region, vx, vy)]

\* Device.Scroll: scroll the scroll region (or the whole terminal) by
\* rowAmount rows and fill the exposed band with background
Scroll(d, rowAmount) ==
    IF RectEmpty(d.scrollArea)
    THEN LET d1 == VectorScroll(d, RenderBounds, 0, rowAmount * CellH)
         IN IF rowAmount > 0
            THEN Clear(d1, 0, Rows - rowAmount, Cols, Rows)
            ELSE Clear(d1, 0, 0, Cols, 0 - rowAmount)
    ELSE LET d1 == VectorScroll(d, d.scrollArea, 0, rowAmount * CellH)
         IN IF rowAmount > 0
            THEN Clear(d1, 0, d.scrollRegion[2] - rowAmount + 1,
                       Cols, d.scrollRegion[2] + 1)
            ELSE Clear(d1, 0, d.scrollRegion[1],
                       Cols, d.scrollRegion[1] - rowAmount)

\* a setScrollRegion that takes every request as it comes
setScrollRegionUnchecked(d, start, end) ==
    LET top == bound(start - 1, 0, Rows - 1)
        bot == bound(end - 1, 0, Rows - 1)
        area == Rect(RenderBounds.x0, top * CellH + RenderBounds.y0,
                     RenderBounds.x1, (bot + 1) * CellH + RenderBounds.y0)
    IN [d EXCEPT !.scrollArea = area, !.scrollRegion = <<top, bot>>]

\* a setScrollRegion that forgets the region of a degenerate request but
\* keeps the area it computed
setScrollRegionKeepArea(d, start, end) ==
    LET top == bound(start - 1, 0, Rows - 1)
        bot == bound(end - 1, 0, Rows - 1)
        area == Rect(RenderBounds.x0, top * CellH + RenderBounds.y0,
                     RenderBounds.x1, (bot + 1) * CellH + RenderBounds.y0)
    IN IF (start = 0 /\ end = 0) \/ start >= end \/ RectEq(area, RenderBounds)
       THEN [d EXCEPT !.scrollArea = area, !.scrollRegion = <<0, Rows - 1>>]
       ELSE [d EXCEPT !.scrollArea = area, !.scrollRegion = <<top, bot>>]

\* Device.setScrollRegion, start and end 1-based
setScrollRegion(d, start, end) ==
    LET top == bound(start - 1, 0, Rows - 1)
        bot == bound(end - 1, 0, Rows - 1)
        area == Rect(RenderBounds.x0, top * CellH + RenderBounds.y0,
                     RenderBounds.x1, (bot + 1) * CellH + RenderBounds.y0)
    IN IF (start = 0 /\ end = 0) \/ start >= end \/ RectEq(area, RenderBounds)
       THEN [d EXCEPT !.scrollArea = ZR, !.scrollRegion = <<0, Rows - 1>>]
       ELSE [d EXCEPT !.scrollArea = area, !.scrollRegion = <<top, bot>>]

\* Device.toggleCursor: invert the cursor's cell through the clipped Render
toggleCursor(d) ==
    LET p == <<d.cursor.col, d.cursor.row>>
        d1 == [d EXCEPT !.cursor.visible = ~d.cursor.visible]
    IN IF p \in GridCells
       THEN [d1 EXCEPT !.screen[p].inv = ~d.screen[p].inv]
       ELSE d1

\* Device.hideCursor
hideCursor(d) == IF d.cursor.visible THEN toggleCursor(d) ELSE d

\* Device.showCursor
showCursor(d) ==
    IF d.cursor.show /\ ~d.cursor.visible THEN toggleCursor(d) ELSE d

\* a reset that leaves the charset designations alone
ResetKeepCharsets(d) ==
    LET d1 == [d EXCEPT !.attr = attrDefault]
        d2 == MoveAbs(clearAll(d1), 0, 0)
    IN [d2 EXCEPT !.scrollArea = ZR, !.scrollRegion = <<0, Rows - 1>>]

\* Device.Reset
Reset(d) ==
    LET d1 == [d EXCEPT !.attr = attrDefault,
                        !.active.g = <<"CharSet", "AltCharSet">>,
                        !.active.tileSet = "CharSet"]
        d2 == MoveAbs(clearAll(d1), 0, 0)
    IN [d2 EXCEPT !.scrollArea = ZR, !.scrollRegion = <<0, Rows - 1>>]

(* ---------------------------- glyph renderer --------------------------- *)
\* the cell width RenderRune computes: 1 up to U+00FF, else runewidth's
\* classification (0 for combining marks, 2 for East Asian wide runes)
RuneWidth(sym) ==
    IF sym <= 255 THEN 1
    ELSE IF sym \in 768..879 THEN 0
    ELSE IF sym \in 19968..40959 THEN 2
    ELSE 1

\* the line overlays RenderRune draws for the current attributes
AttrDeco(a) ==
    (IF a.Strike THEN {"strike"} ELSE {})
      \cup (IF a.Underline THEN {"underline"} ELSE {})
      \cup (IF a.Underline /\ a.DoubleUnderline THEN {"double"} ELSE {})

\* Device.RenderRune: the tile goes to the surface itself at the cursor's
\* cell (the previous cell for a zero-width rune); the overlays and the
\* conceal blur go through the Render, which clips to the render bounds
RenderRune(d, sym) ==
    LET w == RuneWidth(sym)
        col == d.cursor.col
        row == d.cursor.row
        at == IF w = 0 THEN <<col - 1, row>> ELSE <<col, row>>
        glyph == [r |-> sym, ts |-> d.active.tileSet, fg |-> d.active.fg,
                  bg |-> IF w = 0 THEN Transparent ELSE d.active.bg,
                  deco |-> {}, inv |-> FALSE, over |-> NoColor]
        s1 == IF at \in DOMAIN d.screen
              THEN [d.screen EXCEPT ![at] = glyph] ELSE d.screen
        lined == {p \in GridCells : p[2] = row /\ p[1] >= col /\ p[1] < col + w}
        s2 == [p \in DOMAIN s1 |->
                 IF p \in lined
                 THEN [s1[p] EXCEPT !.deco = @ \cup AttrDeco(d.attr)]
                 ELSE s1[p]]
        s3 == IF d.attr.Conceal /\ <<col, row>> \in GridCells
              THEN [s2 EXCEPT ![<<col, row>>].deco = @ \cup {"conceal"}]
              ELSE s2
    IN [d EXCEPT !.screen = s3]

(* -------------------------------- replies ------------------------------ *)
RECURSIVE FmtNat(_)
FmtNat(n) == IF n < 10 THEN <<48 + n>> ELSE FmtNat(n \div 10) \o <<48 + (n % 10)>>

\* fmt's %d
FmtInt(n) == IF n < 0 THEN <<chMinus>> \o FmtNat(0 - n) ELSE FmtNat(n)

Reply(d, bytes) == [d EXCEPT !.output = Append(@, bytes)]

(* ---------------------------------- SGR -------------------------------- *)
\* getRGB: up to three components, missing ones zero
getRGB(args) ==
    << IF Len(args) >= 1 THEN uint8(args[1]) ELSE 0,
       IF Len(args) >= 2 THEN uint8(args[2]) ELSE 0,
       IF Len(args) >= 3 THEN uint8(args[3]) ELSE 0 >>

\* SGR 1 with BoldColors: a base ANSI foreground moves to its bright twin
BoldFg(fg) ==
    IF \E k \in 0..7 : fg = ansi(k)
    THEN ansi((CHOOSE k \in 0..7 : fg = ansi(k) /\ \A j \in 0..(k - 1) : fg # ansi(j)) + 8)
    ELSE fg

\* SGR 22 with BoldColors: a bright ANSI foreground moves back to its base
UnboldFg(fg) ==
    IF \E k \in 0..7 : fg = ansi(k + 8)
    THEN ansi(CHOOSE k \in 0..7 : fg = ansi(k + 8) /\ \A j \in 0..(k - 1) : fg # ansi(j + 8))
    ELSE fg

\* the 256-color branch of SGR 38/48: the palette is indexed with args[i+2]
\* as it stands
Sgr256(d, args, i) ==
    IF i + 2 >= Len(args) \/ args[i + 3] < 0 \/ args[i + 3] > 255
    THEN [d EXCEPT !.panicked = TRUE]
    ELSE IF args[i + 1] % 256 = 38
         THEN [d EXCEPT !.attr.Fg = palette256(args[i + 3])]
         ELSE [d EXCEPT !.attr.Bg = palette256(args[i + 3])]

\* the loop of case 'm' in handleCSISequence, i is the 0-based index
RECURSIVE SgrLoop(_, _, _)
SgrLoop(d, args, i) ==
    IF i >= Len(args) \/ d.panicked THEN d
    ELSE LET a == args[i + 1]
             set(f, v) == SgrLoop([d EXCEPT !.attr[f] = v], args, i + 1)
         IN CASE a = 0 -> SgrLoop([d EXCEPT !.attr = attrDefault], args, i + 1)
              [] a = 1 ->
                   SgrLoop([d EXCEPT !.attr.Bold = TRUE,
                                     !.attr.Fg = IF d.config.BoldColors
                                                 THEN BoldFg(@) ELSE @],
                           args, i + 1)
              [] a = 22 ->
                   SgrLoop([d EXCEPT !.attr.Bold = FALSE,
                                     !.attr.Fg = IF d.config.BoldColors
                                                 THEN UnboldFg(@) ELSE @],
                           args, i + 1)
              [] a = 3 -> set("Italic", TRUE)
              [] a = 23 -> set("Italic", FALSE)
              [] a = 4 -> set("Underline", TRUE)
              [] a = 21 ->
                   SgrLoop([d EXCEPT !.attr.Underline = TRUE,
                                     !.attr.DoubleUnderline = TRUE], args, i + 1)
              [] a = 24 ->
                   SgrLoop([d EXCEPT !.attr.Underline = FALSE,
                                     !.attr.DoubleUnderline = FALSE], args, i + 1)
              [] a = 5 -> set("Blink", TRUE)
              [] a = 25 -> set("Blink", FALSE)
              [] a = 7 -> set("Reversed", TRUE)
              [] a = 27 -> set("Reversed", FALSE)
              [] a = 8 -> set("Conceal", TRUE)
              [] a = 28 -> set("Conceal", FALSE)
              [] a = 9 -> set("Strike", TRUE)
              [] a = 29 -> set("Strike", FALSE)
              [] a \in 30..37 ->
                   set("Fg", IF d.config.BoldColors /\ d.attr.Bold
                             THEN ansi(a - 30 + 8) ELSE ansi(a - 30))
              [] a = 39 -> set("Fg", attrDefault.Fg)
              [] a \in 40..47 -> set("Bg", ansi(a - 40))
              [] a = 49 -> set("Bg", attrDefault.Bg)
              [] a \in 90..97 -> set("Fg", ansi(a - 90 + 8))
              [] a \in 100..107 -> set("Bg", ansi(a - 100 + 8))
              [] a \in {38, 48} ->
                   IF i + 1 >= Len(args) THEN SgrLoop(d, args, i + 1)
                   ELSE IF args[i + 2] = 5
                        THEN SgrLoop(Sgr256(d, args, i), args, i + 3)
                   ELSE IF args[i + 2] # 2 THEN SgrLoop(d, args, i + 1)
                   ELSE LET rgb == getRGB(SubSeq(args, i + 3, Len(args)))
                        IN SgrLoop(IF a = 38 THEN [d EXCEPT !.attr.Fg = rgb]
                                   ELSE [d EXCEPT !.attr.Bg = rgb],
                                   args, i + 5)
              [] OTHER -> SgrLoop(d, args, i + 1)

(* ----------------------------- CSI dispatcher -------------------------- *)
\* case 'l', 'h' of handleCSISequence: the private modes
PrivateMode(d, seq) ==
    IF seq[1] # chQuest \/ Len(seq) < 2 THEN d
    ELSE LET args == getNumericArgs(SubSeq(seq, 2, Len(seq) - 1), 0)
             set == seq[Len(seq)] = 104
         IN CASE args[1] \in {0, 1} ->
                   [d EXCEPT !.config.CursorKeyApplicationMode = set]
              [] args[1] = 7 -> [d EXCEPT !.config.Wraparound = ~set]
              [] args[1] = 25 ->
                   IF set THEN [d EXCEPT !.cursor.show = TRUE]
                   ELSE hideCursor([d EXCEPT !.cursor.show = FALSE])
              [] args[1] \in {47, 1049} ->
                   IF ~d.config.AltScreen THEN d
                   ELSE IF set
                        THEN clearAll([d EXCEPT !.saveBuf =
                                                   [set |-> TRUE, img |-> d.screen]])
                        ELSE IF ~d.saveBuf.set THEN [d EXCEPT !.panicked = TRUE]
                        ELSE [d EXCEPT !.screen =
                                 [p \in DOMAIN d.screen |->
                                     IF p \in GridCells THEN d.saveBuf.img[p]
                                     ELSE d.screen[p]]]
              [] OTHER -> d

\* case '@' and 'P' of handleCSISequence: shift the rest of the cursor row
RowRest(d) ==
    LET c == cursorPt(d)
    IN Rect(c.x, c.y, c.x + ColsRemaining(d) * CellW, c.y + CellH)

\* case 'L' and 'M' of handleCSISequence: scroll inside a transient region
\* from the cursor to the region's bottom, then restore region and area
LineShift(d, amount) ==
    LET d1 == Scroll(setScrollRegion(d, d.cursor.row + 1, d.scrollRegion[2] + 1),
                     amount)
    IN [d1 EXCEPT !.scrollRegion = d.scrollRegion, !.scrollArea = d.scrollArea]

\* a cursor position report of row+1 and col+1 as they are
CursorReportUnclamped(d) ==
    Reply(d, <<ESC, chLBrack>> \o FmtInt(d.cursor.row + 1)
                \o <<chSemi>> \o FmtInt(d.cursor.col + 1) \o <<82>>)

\* case 'n', 6 of handleCSISequence: the cursor position report
CursorReport(d) ==
    Reply(d, <<ESC, chLBrack>> \o FmtInt(bound(d.cursor.row + 1, 1, Rows))
                \o <<chSemi>> \o FmtInt(bound(d.cursor.col + 1, 1, Cols))
                \o <<82>>)

\* handleCSISequence: seq is the sequence after ESC [, final byte included
handleCSISequence(d, seq) ==
    IF Len(seq) = 0 THEN d
    ELSE
    LET body == SubSeq(seq, 1, Len(seq) - 1)
        args == getNumericArgs(body, 1)
        args0 == getNumericArgs(body, 0)
        fin == seq[Len(seq)]
        col == d.cursor.col
        row == d.cursor.row
    IN CASE fin = 64 -> VectorScroll(d, RowRest(d), 0 - CellW * args[1], 0)
         [] fin = 65 -> MoveRel(d, 0, 0 - args[1])
         [] fin = 66 -> MoveRel(d, 0, args[1])
         [] fin = 67 -> MoveRel(d, args[1], 0)
         [] fin = 68 -> MoveRel(d, 0 - args[1], 0)
         [] fin = 69 -> MoveRel(d, 0 - Cols, args[1])
         [] fin = 70 -> MoveRel(d, 0 - Cols, 0 - args[1])
         [] fin = 71 -> MoveAbs(d, args[1] - 1, row)
         [] fin \in {72, 102} ->
              LET n == IF Len(args) \in {1, 2} THEN args[1] ELSE 1
                  m == IF Len(args) = 2 THEN args[2] ELSE 1
              IN MoveAbs(d, m - 1, n - 1)
         [] fin = 74 ->
              CASE args0[1] = 0 ->
                     Clear(Clear(d, col, row, Cols, row + 1), 0, row + 1, Cols, Rows)
                [] args0[1] = 1 ->
                     Clear(Clear(d, 0, row, col, row + 1), 0, 0, Cols, row)
                [] args0[1] = 2 -> Clear(d, 0, 0, Cols, Rows)
                [] OTHER -> d
         [] fin = 75 ->
              CASE args0[1] = 0 -> Clear(d, col, row, Cols, row + 1)
                [] args0[1] = 1 -> Clear(d, 0, row, col, row + 1)
                [] args0[1] = 2 -> Clear(d, 0, row, Cols, row + 1)
                [] OTHER -> d
         [] fin = 76 -> LineShift(d, 0 - args[1])
         [] fin = 77 -> LineShift(d, args[1])
         [] fin = 80 ->
              Clear(VectorScroll(d, RowRest(d), CellW * args[1], 0),
                    Cols - args[1], row, Cols, row + 1)
         [] fin = 83 -> Scroll(d, args[1])
         [] fin = 84 -> Scroll(d, 0 - args[1])
         [] fin = 88 ->
              Clear(d, col, row, bound(args[1] + col, col + 1, Cols), row + 1)
         [] fin = 99 -> Reply(d, <<ESC, chLBrack, chQuest, 49, chSemi, 50, 99>>)
         [] fin = 100 -> [d EXCEPT !.cursor.row = bound(args[1] - 1, 0, Rows)]
         [] fin = 109 -> SgrLoop(d, args0, 0)
         [] fin = 110 ->
              CASE args[1] = 5 -> Reply(d, <<ESC, chLBrack, 48, 110>>)
                [] args[1] = 6 -> CursorReport(d)
                [] OTHER -> d
         [] fin \in {104, 108} -> PrivateMode(d, seq)
         [] fin = 114 ->
              IF Len(args) # 2 THEN d ELSE setScrollRegion(d, args[1], args[2])
         [] fin = 115 -> SavePos(d)
         [] fin = 116 ->
              CASE args[1] = 18 ->
                     Reply(d, <<ESC, chLBrack, 56, chSemi>> \o FmtInt(Rows)
                                 \o <<58>> \o FmtInt(Cols) \o <<116>>)
                [] args[1] = 19 ->
                     Reply(d, <<ESC, chLBrack, 57, chSemi>>
                                 \o FmtInt(RenderBounds.y1 - RenderBounds.y0)
                                 \o <<chSemi>>
                                 \o FmtInt(RenderBounds.x1 - RenderBounds.x0)
                                 \o <<116>>)
                [] OTHER -> d
         [] fin = 117 -> RestorePos(d)
         [] OTHER -> d

(* ------------------------- OSC and private handlers -------------------- *)
\* handleOSCSequence: seq is the sequence after ESC ]
handleOSCSequence(d, seq) ==
    LET t == trimST(seq)
    IN IF Len(t) = 0 THEN d
       ELSE LET args == getNumericArgs(t, 0)
            IN CASE args[1] = 0 ->
                      IF Len(t) < 2 THEN [d EXCEPT !.panicked = TRUE]
                      ELSE [d EXCEPT !.title = SubSeq(t, 3, Len(t)),
                                     !.configUpdates = @ + 1]
                 [] args[1] \in {10, 11} ->
                      LET c == IF args[1] = 10 THEN attrDefault.Fg ELSE attrDefault.Bg
                      IN Reply(d, <<ESC, chRBrack>> \o FmtInt(args[1])
                                    \o <<chSemi, 114, 103, 98, 58>> \o FmtInt(c[1])
                                    \o <<chSlash>> \o FmtInt(c[2]) \o <<chSlash>>
                                    \o FmtInt(c[3]) \o <<ESC, chSlash>>)
                 [] OTHER -> d

\* the characters base64.StdEncoding accepts
IsBase64Char(c) == c \in (65..90) \cup (97..122) \cup (48..57) \cup {43, 47}

\* base64.StdEncoding.DecodeString yields at least 16 bytes for a 24
\* character payload only when the payload is valid base64
Base64Valid24(data) ==
    LET pad == IF data[24] # 61 THEN 0 ELSE IF data[23] # 61 THEN 1 ELSE 2
    IN \A k \in 1..(24 - pad) : IsBase64Char(data[k])

\* case 'c' of handleFansiSequence: a 1-bit cell bitmap at the cursor, drawn
\* through the clipped Render, the cursor advancing one cell
fansiCell(d, data) ==
    IF Len(data) \notin {24, 32} THEN d
    ELSE IF Len(data) = 24 /\ ~Base64Valid24(data) THEN [d EXCEPT !.panicked = TRUE]
    ELSE LET p == <<d.cursor.col, d.cursor.row>>
             bitmap == [r |-> 0 - 2, ts |-> "AlphaCell", fg |-> d.active.fg,
                        bg |-> d.active.bg, deco |-> {}, inv |-> FALSE,
                        over |-> NoColor]
             d1 == IF p \in GridCells THEN [d EXCEPT !.screen[p] = bitmap] ELSE d
             c1 == d.cursor.col + 1
         IN [d1 EXCEPT !.cursor.col =
                IF d.config.Wraparound THEN bound(c1, 0, Cols - 1) ELSE c1]

chComma == 44
chHash == 35

\* fmt's %02x
HexDigit(v) == IF v < 10 THEN 48 + v ELSE 87 + v

Hex2(v) == <<HexDigit((v \div 16) % 16), HexDigit(v % 16)>>

\* colorToHex: "#rrggbb" of a color's 8-bit components
colorToHex(c) == <<chHash>> \o Hex2(c[1]) \o Hex2(c[2]) \o Hex2(c[3])

\* the first comma of s, or one past its end
RECURSIVE CommaAt(_, _)
CommaAt(s, k) ==
    IF k > Len(s) \/ s[k] = chComma THEN k ELSE CommaAt(s, k + 1)

\* fmt.Sscanf(s, "%d,%d", &x, &y): what does not scan stays zero
ScanPoint(s) ==
    LET k == CommaAt(s, 1)
        a == SubSeq(s, 1, k - 1)
        b == SubSeq(s, k + 1, Len(s))
    IN [x |-> IF AtoiOk(a) THEN AtoiVal(a) ELSE 0,
        y |-> IF AtoiOk(a) /\ AtoiOk(b) THEN AtoiVal(b) ELSE 0]

\* the cell that holds pixel (x, y) of the surface
PixelCell(x, y) == <<(x - OffX) \div CellW, (y - OffY) \div CellH>>

\* Render.At: the color of pixel (x, y), taken where no glyph or overlay of
\* its cell covers it; the zero color outside the surface
At(d, x, y) ==
    IF PixelCell(x, y) \notin DOMAIN d.screen THEN <<0, 0, 0>>
    ELSE LET c == d.screen[PixelCell(x, y)]
         IN IF c.over # NoColor THEN c.over ELSE c.bg

\* case 'A', 'a' of handleFansiSequence: the color at a pixel, addressed from
\* the render origin (A) or from the cursor (a)
fansiAt(d, which, param) ==
    LET req == ScanPoint(param)
        x == req.x + RenderBounds.x0 + (IF which = 97 THEN cursorPt(d).x ELSE 0)
        y == req.y + RenderBounds.y0 + (IF which = 97 THEN cursorPt(d).y ELSE 0)
    IN Reply(Reply(d, <<79, 75, 65, 89>>),
             <<ESC, chSlash, which>> \o FmtInt(x) \o <<chComma>> \o FmtInt(y)
                 \o <<chSemi>> \o colorToHex(At(d, x, y)) \o <<BEL>>)

\* a hexadecimal digit of %2x
IsHex(ch) == ch \in 48..57 \/ ch \in 97..102 \/ ch \in 65..70

HexVal(ch) == IF ch \in 48..57 THEN ch - 48 ELSE IF ch \in 97..102 THEN ch - 87 ELSE ch - 55

\* "#%2x%2x%2x" scans s in full
IsHexColor(s) == Len(s) >= 7 /\ s[1] = chHash /\ \A k \in 2..7 : IsHex(s[k])

HexColor(s) ==
    << 16 * HexVal(s[2]) + HexVal(s[3]), 16 * HexVal(s[4]) + HexVal(s[5]),
       16 * HexVal(s[6]) + HexVal(s[7]) >>

\* "%d,%d" scans s in full
ScanOk(s) ==
    LET k == CommaAt(s, 1)
    IN AtoiOk(SubSeq(s, 1, k - 1)) /\ AtoiOk(SubSeq(s, k + 1, Len(s)))

\* case 'F' of handleFansiSequence: fill the rectangle x1,y1;x2,y2 with the
\* color #rrggbb, or with the foreground when the four numbers are all that
\* scans; fewer than four numbers leave the rest of the rectangle zero and
\* the color black.  The rectangle is moved by the render origin and handed
\* to Render.Fill.  The decimal form r,g,b of the color is not modelled
fansiFill(d, params) ==
    LET ok1 == ScanOk(params[1])
        p1 == ScanPoint(params[1])
        has2 == ok1 /\ Len(params) >= 2
        p2 == IF has2 THEN ScanPoint(params[2]) ELSE [x |-> 0, y |-> 0]
        n4 == has2 /\ ScanOk(params[2])
        c == IF ~n4 THEN <<0, 0, 0>>
             ELSE IF Len(params) >= 3 /\ IsHexColor(params[3]) THEN HexColor(params[3])
             ELSE d.active.fg
        rect == CanonRect(p1.x, p1.y, p2.x, p2.y)
    IN [d EXCEPT !.screen =
           RenderFill(@, RectAdd(rect, RenderBounds.x0, RenderBounds.y0), c)]

\* handleFansiSequence: seq is the sequence after ESC /.  The operations
\* modelled are A and a (color at a pixel), c (cell bitmap), d (bell), F
\* (fill) and u (user tile, whose image payload never decodes here); the
\* other pixel drawing operations are not fed to the model.
handleFansiSequence(d, seq) ==
    LET t == trimST(seq)
    IN IF Len(t) <= 1 THEN d
       ELSE LET params == splitParams(Tail(t))
            IN CASE t[1] \in {65, 97} -> fansiAt(d, t[1], params[1])
                 [] t[1] = 70 -> fansiFill(d, params)
                 [] t[1] = 99 -> fansiCell(d, params[1])
                 [] t[1] = 100 -> [d EXCEPT !.bells = @ + 1]
                 [] t[1] = 117 ->
                      IF Len(params) < 2 THEN [d EXCEPT !.panicked = TRUE] ELSE d
                 [] OTHER -> d

(* ----------------------------- ESC dispatcher -------------------------- *)
\* HandleEscSequence: seq is one complete sequence, ESC included
HandleEscSequence(d, seq) ==
    LET k == seq[2]
        d0 == [d EXCEPT !.dispatched = Append(@, seq)]
        d1 == CASE k = 55 -> SavePos(d0)
                [] k = 56 -> RestorePos(d0)
                [] k = 99 -> Reset(d0)
                [] k = chLBrack -> handleCSISequence(d0, SubSeq(seq, 3, Len(seq)))
                [] k = chRBrack -> handleOSCSequence(d0, SubSeq(seq, 3, Len(seq)))
                [] k = 77 ->
                     IF d0.cursor.row = 0 THEN Scroll(d0, 0 - 1)
                     ELSE [d0 EXCEPT !.cursor.row = @ - 1]
                [] k = chLParen ->
                     [d0 EXCEPT !.active.g[1] =
                         IF seq[3] = ch0 THEN "AltCharSet" ELSE "CharSet"]
                [] k = chRParen ->
                     [d0 EXCEPT !.active.g[2] =
                         IF seq[3] = ch0 THEN "AltCharSet" ELSE "CharSet"]
                [] k = chSlash -> handleFansiSequence(d0, SubSeq(seq, 3, Len(seq)))
                [] OTHER -> d0
    IN IF d1.panicked THEN d1 ELSE updateAttr(d1)

(* ------------------------------ Write loop ----------------------------- *)
\* a vertical motion that knows only the last row of the terminal
LineFeedWholeScreen(d) ==
    IF d.cursor.row = Rows - 1 THEN Scroll(d, 1)
    ELSE IF d.cursor.row < Rows - 1 THEN [d EXCEPT !.cursor.row = @ + 1]
    ELSE d

\* the vertical motion of LF, VT and FF
LineFeed(d) ==
    IF d.cursor.row = d.scrollRegion[2] THEN Scroll(d, 1)
    ELSE IF d.cursor.row < Rows - 1 THEN [d EXCEPT !.cursor.row = @ + 1]
    ELSE d

\* the wrap step of Write's default case, taken with the cursor at column 0
WrapStep(d) ==
    LET d0 == [d EXCEPT !.cursor.col = 0]
    IN IF d0.cursor.row = d0.scrollRegion[2] THEN Scroll(d0, 1)
       ELSE IF d0.cursor.row < Rows - 1 THEN [d0 EXCEPT !.cursor.row = @ + 1]
       ELSE d0

\* a Write that wraps as soon as the last column is filled
PrintableEagerWrap(d, r) ==
    LET d2 == RenderRune(d, r)
        c2 == d.cursor.col + RuneWidth(r)
        d3 == [d2 EXCEPT !.cursor.col =
                  IF d.config.Wraparound THEN bound(c2, 0, Cols - 1) ELSE c2]
    IN IF d3.cursor.col >= Cols THEN WrapStep(d3) ELSE d3

\* the default case of Write's switch: wrap if past the end, render, advance
Printable(d, r) ==
    LET d1 == IF d.cursor.col = Cols THEN WrapStep(d) ELSE d
        d2 == RenderRune(d1, r)
        c2 == d1.cursor.col + RuneWidth(r)
    IN [d2 EXCEPT !.cursor.col =
           IF d.config.Wraparound THEN bound(c2, 0, Cols - 1) ELSE c2]

\* the ESC case of Write's switch.  runes[i:i+n] may reach past len(runes):
\* within the slice's capacity cap it reads zero runes, beyond it panics
EscCase(d, runes, i, cap) ==
    LET rest == SubSeq(runes, i + 1, Len(runes))
        c == consumeEscSequence(rest)
    IN IF ~c.ok THEN [d |-> [d EXCEPT !.inputBuf = rest], i |-> Len(runes) + 1]
       ELSE IF i + c.n > cap THEN [d |-> [d EXCEPT !.panicked = TRUE], i |-> i]
       ELSE LET seq == [k \in 1..c.n |->
                           IF i + k <= Len(runes) THEN runes[i + k] ELSE 0]
            IN [d |-> HandleEscSequence(d, seq), i |-> i + c.n]

\* one iteration of Write's loop over runes, i the 0-based index; yields the
\* device and the index of the next iteration
WriteIter(d, runes, i, cap) ==
    LET r == runes[i + 1]
        next(dd) == [d |-> dd, i |-> i + 1]
    IN CASE r = BEL -> next([d EXCEPT !.bells = @ + 1])
         [] r = BS -> next([d EXCEPT !.cursor.col = Max2(@ - 1, 0)])
         [] r = HT ->
              next([d EXCEPT !.cursor.col =
                      Min2(Cols - 1, @ + d.config.TabSize - (@ % d.config.TabSize))])
         [] r = CR -> next([d EXCEPT !.cursor.col = 0])
         [] r = LF -> next(LineFeed([d EXCEPT !.cursor.col = 0]))
         [] r \in {VT, FF} -> next(LineFeed(d))
         [] r = SO -> next(updateAttr([d EXCEPT !.active.shift = 1]))
         [] r = SI -> next(updateAttr([d EXCEPT !.active.shift = 0]))
         [] r = ESC -> EscCase(d, runes, i, cap)
         [] OTHER -> next(Printable(d, r))

\* Write's loop over runes from the 0-based index i; WriteFrom carries on
\* from the device and index an iteration yields
RECURSIVE WriteLoop(_, _, _, _)
RECURSIVE WriteFrom(_, _, _)
WriteLoop(d, runes, i, cap) ==
    IF i >= Len(runes) \/ d.panicked THEN d
    ELSE WriteFrom(WriteIter(d, runes, i, cap), runes, cap)

WriteFrom(s, runes, cap) == WriteLoop(s.d, runes, s.i, cap)

\* a start of Write that leaves the cursor painted
WriteBeginCursorOn(d) ==
    [d EXCEPT !.inputBuf = <<>>, !.output = <<>>, !.dispatched = <<>>,
              !.bells = 0, !.configUpdates = 0]

\* what Write does before its loop: un-invert the cursor, prepend inputBuf
WriteBegin(d) ==
    LET d1 == hideCursor(d)
    IN [d1 EXCEPT !.inputBuf = <<>>, !.output = <<>>, !.dispatched = <<>>,
                  !.bells = 0, !.configUpdates = 0]

\* what Write does on return: the deferred showCursor.  A panic ends the
\* process, and the device is kept as the panic found it
WriteEnd(d) == IF d.panicked THEN d ELSE showCursor(d)

\* Device.Write of the runes of data.  slack is the spare capacity that
\* append left behind runes when inputBuf was prepended
WriteAll(d, data, slack) ==
    LET runes == d.inputBuf \o data
        cap == Len(runes) + (IF Len(d.inputBuf) # 0 THEN slack ELSE 0)
    IN WriteEnd(WriteLoop(WriteBegin(d), runes, 0, cap))

(* ------------------------------- state --------------------------------- *)
VARIABLES
    cursor,        \* Device.cursor: col, row, show, visible, prevPos, altPos
    attr,          \* Device.attr
    scrollRegion,  \* Device.scrollRegion: <<top, bottom>>
    scrollArea,    \* Device.scrollArea
    active,        \* Render.active: g, shift, tileSet, fg, bg
    config,        \* Device.Config
    inputBuf,      \* Device.inputBuf
    saveBuf,       \* Device.saveBuf
    screen,        \* the surface behind Render.Image
    title,         \* Properties[PropertyWindowTitle]
    panicked,      \* a panic has aborted the program
    output,        \* what the latest Write wrote to Device.Output
    dispatched,    \* the sequences the latest Write handed to HandleEscSequence
    bells,         \* BellFunc invocations of the latest Write
    configUpdates, \* ConfigUpdate invocations of the latest Write
    lastData,      \* the runes of the latest Write
    before,        \* the device as the latest Write found it
    writes,        \* Write calls made so far
    feed,          \* a sequence being delivered in pieces, with the device
                   \* as it was before the first piece
    framed,        \* the latest call of consumeEscSequence and its result
    drawn,         \* the latest call of a tile set's DrawTile and the cell it left
    writeAt,       \* the latest call of WriteAt: its offset, the cursor it saved
    alphaCell,     \* a tiles.AlphaCell and the latest call of its Set
    writeQueue,    \* Device.writeQueue: the calls enqueued and not yet received
    pump,          \* queueHandler: where it stands, and the call it interprets
    done,          \* Device.done has been signalled
    sent,          \* every call enqueued so far, in enqueue order
    interp,        \* the runes interpreted so far, each <<call, index>>
    display        \* Render.DisplayFunc: whether it is set, and its invocations

devVars == <<cursor, attr, scrollRegion, scrollArea, active, config, inputBuf,
             saveBuf, screen, title, panicked, output, dispatched, bells,
             configUpdates>>

pumpVars == <<writeQueue, pump, done, sent, interp, display>>

vars == <<devVars, lastData, before, writes, feed, framed, drawn, writeAt, alphaCell, pumpVars>>

\* the device as one value
Dev ==
    [cursor |-> cursor, attr |-> attr, scrollRegion |-> scrollRegion,
     scrollArea |-> scrollArea, active |-> active, config |-> config,
     inputBuf |-> inputBuf, saveBuf |-> saveBuf, screen |-> screen,
     title |-> title, panicked |-> panicked, output |-> output,
     dispatched |-> dispatched, bells |-> bells,
     configUpdates |-> configUpdates]

SetDev(d) ==
    /\ cursor' = d.cursor
    /\ attr' = d.attr
    /\ scrollRegion' = d.scrollRegion
    /\ scrollArea' = d.scrollArea
    /\ active' = d.active
    /\ config' = d.config
    /\ inputBuf' = d.inputBuf
    /\ saveBuf' = d.saveBuf
    /\ screen' = d.screen
    /\ title' = d.title
    /\ panicked' = d.panicked
    /\ output' = d.output
    /\ dispatched' = d.dispatched
    /\ bells' = d.bells
    /\ configUpdates' = d.configUpdates

\* New: the device over a surface larger than the terminal, after the
\* pre-fill of the bounds, Reset and updateAttr
NewDevice ==
    LET raw == [p \in SurfaceCells |-> HostPixels]
        d0 == [cursor |-> [col |-> 0, row |-> 0, show |-> TRUE, visible |-> FALSE,
                           prevPos |-> <<0, 0>>, altPos |-> <<0, 0>>],
               attr |-> attrDefault,
               scrollRegion |-> <<0, Rows - 1>>,
               scrollArea |-> ZR,
               active |-> [g |-> <<"CharSet", "AltCharSet">>, shift |-> 0,
                           tileSet |-> "CharSet", fg |-> attrDefault.Fg,
                           bg |-> attrDefault.Bg],
               config |-> ConfigDefault,
               inputBuf |-> <<>>,
               saveBuf |-> [set |-> FALSE, img |-> raw],
               screen |-> RenderFill(raw, RenderBounds, attrDefault.Bg),
               title |-> <<>>, panicked |-> FALSE, output |-> <<>>,
               dispatched |-> <<>>, bells |-> 0, configUpdates |-> 0]
    IN updateAttr(Reset(d0))

InitDevice ==
    /\ cursor = NewDevice.cursor
    /\ attr = NewDevice.attr
    /\ scrollRegion = NewDevice.scrollRegion
    /\ scrollArea = NewDevice.scrollArea
    /\ active = NewDevice.active
    /\ config = NewDevice.config
    /\ inputBuf = NewDevice.inputBuf
    /\ saveBuf = NewDevice.saveBuf
    /\ screen = NewDevice.screen
    /\ title = NewDevice.title
    /\ panicked = NewDevice.panicked
    /\ output = NewDevice.output
    /\ dispatched = NewDevice.dispatched
    /\ bells = NewDevice.bells
    /\ configUpdates = NewDevice.configUpdates

(* ------------------------------- inputs -------------------------------- *)
\* ESC [ params final
Csi(params, fin) == <<ESC, chLBrack>> \o params \o <<fin>>

\* the decimal digits of n
Num(n) == FmtNat(n)

\* ESC [ ? 7 h and ESC [ ? 7 l
WrapOn == Csi(<<chQuest>> \o Num(7), 104)

WrapOff == Csi(<<chQuest>> \o Num(7), 108)

\* CSI n d with n past the last row
RowPastEnd == Csi(Num(Rows + 6), 100)

\* cols printable cells of width 1
FullLine == [k \in 1..Cols |-> chA]

\* what the terminal specification writes, one item per Write: controls,
\* printables of width 1, 2 and 0, cursor motion, the wraparound modes
TermInputs ==
    {<<BS>>, <<LF>>, <<chA>>, <<chWide>>, <<chComb>>, FullLine,
     Csi(<<>>, 65), Csi(<<>>, 67), RowPastEnd,
     Csi(<<>>, 115), Csi(<<>>, 117), WrapOn, WrapOff}

(* ------------------------------- actions ------------------------------- *)
NoFeed == [on |-> FALSE, seq |-> <<>>, pos |-> 0, n |-> 0, start |-> NewDevice]

\* WriteAt has not been called
NoWriteAt ==
    [pc |-> "idle", n |-> 0, off |-> 0, col |-> 0, row |-> 0, p |-> <<>>,
     at |-> <<0, 0>>]

\* no AlphaCell has been set
NoAlphaCell == [called |-> FALSE]

\* no tile set has been asked to draw
NotDrawn == [called |-> FALSE]

NotFramed == [data |-> <<>>, n |-> 0, ok |-> FALSE, called |-> FALSE]

\* Render.DisplayFunc is set and has not been invoked; entered[k] tells whether
\* Write k found it set
DisplayIdle == [set |-> TRUE, entered |-> <<>>, calls |-> <<>>]

\* queueHandler waiting in its select, interpreting nothing
PumpIdle == [pc |-> "select", id |-> 0, runes |-> <<>>, i |-> 0, cap |-> 0, base |-> 0]

InitPump ==
    /\ writeQueue = <<>>
    /\ pump = PumpIdle
    /\ done = FALSE
    /\ sent = <<>>
    /\ interp = <<>>
    /\ display = DisplayIdle

\* the device a Write leaves behind, its inputBuf within the bound
Returned(d) ==
    /\ Len(d.inputBuf) <= MaxBuf
    /\ SetDev(d)

\* Device.Write(data): the whole call, under the device lock
Write(data, slack) ==
    /\ ~panicked
    /\ cursor.col <= Cols + MaxOver
    /\ Returned(WriteAll(Dev, data, slack))
    /\ lastData' = data
    /\ before' = Dev
    /\ writes' = writes + 1

Init ==
    /\ InitDevice
    /\ lastData = <<>>
    /\ before = NewDevice
    /\ writes = 0
    /\ feed = NoFeed
    /\ framed = NotFramed
    /\ drawn = NotDrawn
    /\ writeAt = NoWriteAt
    /\ alphaCell = NoAlphaCell
    /\ InitPump

WriteTerm ==
    /\ writes < MaxWrites
    /\ \E data \in TermInputs : Write(data, 0)
    /\ UNCHANGED <<feed, framed, drawn, writeAt, alphaCell, pumpVars>>

Next == WriteTerm

Spec == Init /\ [][Next]_vars

(* ------------------------- cursor and surface -------------------------- *)
\* C1: after any sequence of Writes the cursor satisfies 0 <= col <= cols
\* and 0 <= row < rows
CursorInBounds ==
    /\ 0 <= cursor.col /\ cursor.col <= Cols
    /\ 0 <= cursor.row /\ cursor.row < Rows

\* the surface cells around the render bounds
Margin == SurfaceCells \ GridCells

\* C5: no Write changes a pixel outside the render bounds: the surface
\* around the terminal keeps the host's pixels
MarginUntouched == \A p \in Margin : screen[p] = HostPixels

\* a Write of cols printables that found the cursor at column 0 of row 0
\* and nothing buffered
LineFromOrigin ==
    /\ lastData = FullLine
    /\ before.inputBuf = <<>>
    /\ before.cursor.col = 0
    /\ before.cursor.row = 0

WrapWhenWraparound ==
    /\ (lastData = WrapOn /\ before.inputBuf = <<>>) => config.Wraparound
    /\ (lastData = WrapOff /\ before.inputBuf = <<>>) => ~config.Wraparound
    /\ (lastData = <<chA>> /\ before.inputBuf = <<>> /\ before.cursor.col = Cols - 1)
          => cursor.col = (IF config.Wraparound THEN Cols ELSE Cols - 1)

(* ------------------------ attributes and charsets ---------------------- *)
\* ESC c
EscC == <<ESC, 99>>

\* ESC [ 0 m
Sgr0 == Csi(Num(0), 109)

\* ESC [ 38 ; 5 m: the 256-color selector with its index missing
Sgr256NoIndex == Csi(Num(38) \o <<chSemi>> \o Num(5), 109)

\* what the attribute specification writes: SGR codes, charset designations
\* and shifts, the resets, a printable
AttrInputs ==
    {Sgr0, Csi(<<>>, 109), Csi(Num(1), 109), Csi(Num(4), 109), Csi(Num(7), 109),
     Csi(Num(31), 109), Csi(Num(38) \o <<chSemi>> \o Num(5) \o <<chSemi>> \o Num(9), 109),
     Sgr256NoIndex, <<ESC, chLParen, ch0>>, <<ESC, chRParen, 66>>,
     <<SO>>, <<SI>>, EscC, <<chA>>}

WriteAttr ==
    /\ writes < MaxWrites
    /\ \E data \in AttrInputs : Write(data, 0)
    /\ UNCHANGED <<feed, framed, drawn, writeAt, alphaCell, pumpVars>>

NextAttr == WriteAttr

SpecAttr == Init /\ [][NextAttr]_vars

\* C2: interpretation never aborts, whatever the input
NoPanic == ~panicked

\* the device fields of two device values agree
SameDevice(a, b) ==
    /\ a.cursor = b.cursor /\ a.attr = b.attr /\ a.active = b.active
    /\ a.scrollRegion = b.scrollRegion /\ a.scrollArea = b.scrollArea
    /\ a.config = b.config /\ a.inputBuf = b.inputBuf /\ a.saveBuf = b.saveBuf
    /\ a.screen = b.screen /\ a.title = b.title /\ a.panicked = b.panicked

\* G0 = regular set, G1 = alternate set
DefaultG == <<"CharSet", "AltCharSet">>

\* C7 as stated: after ESC c and after SGR 0 the attributes are attrDefault
\* and G0/G1 are the default bindings
ResetRestoresStated ==
    (lastData \in {EscC, Sgr0} /\ before.inputBuf = <<>>) =>
        attr = attrDefault /\ active.g = DefaultG

\* C7: ESC c restores attrDefault and the default G0/G1; SGR 0 restores
\* attrDefault and keeps G0/G1 as they were; a second application of either
\* changes nothing
ResetRestores ==
    /\ (lastData = EscC /\ before.inputBuf = <<>>) =>
          /\ attr = attrDefault
          /\ active.g = DefaultG
          /\ SameDevice(WriteAll(Dev, EscC, 0), Dev)
    /\ (lastData = Sgr0 /\ before.inputBuf = <<>>) =>
          /\ attr = attrDefault
          /\ active.g = before.active.g
          /\ SameDevice(WriteAll(Dev, Sgr0, 0), Dev)

ResetRestoresWitness ==
    /\ lastData = Sgr0
    /\ before.inputBuf = <<>>
    /\ before.attr # attrDefault
    /\ active.g # DefaultG
    /\ attr = attrDefault

(* ----------------------------- scroll region --------------------------- *)
\* ESC [ start ; end r
Region(start, end) == Csi(Num(start) \o <<chSemi>> \o Num(end), 114)

\* requests that set a region of rows 1..2 and of rows 2..rows
ProperRegions == {Region(1, 2), Region(2, Rows), Region(Rows, Rows + 6)}

\* the degenerate requests: 0;0, start >= end, the whole terminal
DegenerateRegions ==
    {Region(0, 0), Region(2, 1), Region(2, 2), Region(Rows + 6, Rows),
     Region(1, Rows), Region(0, Rows), Region(1, Rows + 6)}

\* a proper request and a degenerate one after it, in one Write
RegionThenDegenerate ==
    {Region(1, 2) \o q : q \in {Region(0, 0), Region(2, 1), Region(1, Rows)}}

\* what the region specification writes: region requests, line motion and
\* line shifts, a printable, the reset
RegionInputs ==
    ProperRegions \cup DegenerateRegions \cup RegionThenDegenerate
      \cup {Csi(<<>>, 114), <<LF>>, <<chA>>, Csi(<<>>, 76), Csi(<<>>, 77), EscC}

WriteRegion ==
    /\ writes < MaxWrites
    /\ \E data \in RegionInputs : Write(data, 0)
    /\ UNCHANGED <<feed, framed, drawn, writeAt, alphaCell, pumpVars>>

NextRegion == WriteRegion

SpecRegion == Init /\ [][NextRegion]_vars

\* C6: the scroll region satisfies 0 <= top <= bottom <= rows-1, and after
\* a degenerate request (0;0, start >= end, the whole terminal) it is the
\* whole screen
RegionBounds ==
    /\ 0 <= scrollRegion[1]
    /\ scrollRegion[1] <= scrollRegion[2]
    /\ scrollRegion[2] <= Rows - 1
    /\ (lastData \in DegenerateRegions \cup RegionThenDegenerate
          /\ before.inputBuf = <<>>)
         => scrollRegion = <<0, Rows - 1>>

RegionBoundsWitness ==
    /\ lastData \in DegenerateRegions
    /\ before.inputBuf = <<>>
    /\ before.scrollRegion # <<0, Rows - 1>>
    /\ before.screen # NewDevice.screen
    /\ scrollRegion = <<0, Rows - 1>>

(* --------------------------- string sequences -------------------------- *)
\* the introducers of OSC, SOS, DCS and the private sequences
StringIntroducers == {<<ESC, chRBrack>>, <<ESC, 88>>, <<ESC, 80>>, <<ESC, chSlash>>}

\* what the string specification writes: an introducer, or one rune
StringInputs ==
    StringIntroducers
      \cup {<<ESC>>, <<chLBrack>>, <<82>>, <<BEL>>, <<chBackslash>>, <<chA>>, <<LF>>}

WriteString ==
    /\ writes < MaxWrites
    /\ \E data \in StringInputs : \E slack \in 0..1 : Write(data, slack)
    /\ UNCHANGED <<feed, framed, drawn, writeAt, alphaCell, pumpVars>>

NextString == WriteString

SpecString == Init /\ [][NextString]_vars

\* buf holds an OSC, SOS, DCS or private sequence without its terminator
InString(buf) ==
    /\ Len(buf) >= 2
    /\ buf[1] = ESC
    /\ buf[2] \in {chRBrack, 88, 80, chSlash}

\* data brings a BEL, or the backslash of ESC \, to the buffered buf
Terminated(buf, data) ==
    LET all == buf \o data
    IN \E j \in (Len(buf) + 1)..Len(all) :
          all[j] = BEL \/ (all[j] = chBackslash /\ all[j - 1] = ESC)

\* data brings the R of ESC ] R to the buffered ESC ]
PaletteQuery(buf, data) == buf = <<ESC, chRBrack>> /\ data # <<>> /\ data[1] = 82

\* the latest Write only appended its data to the input buffer
OnlyBuffered ==
    /\ ~panicked
    /\ inputBuf = before.inputBuf \o lastData
    /\ dispatched = <<>> /\ output = <<>> /\ bells = 0
    /\ cursor = before.cursor /\ attr = before.attr /\ active = before.active
    /\ scrollRegion = before.scrollRegion /\ scrollArea = before.scrollArea
    /\ screen = before.screen

\* C9 as stated: once an OSC, SOS, DCS or private introducer is buffered,
\* every Write that brings no BEL and no ESC \ is only buffered
StringHeldStated ==
    (InString(before.inputBuf) /\ ~Terminated(before.inputBuf, lastData))
        => OnlyBuffered

\* C9: once an OSC, SOS, DCS or private introducer is buffered, every Write
\* that brings no BEL, no ESC \ and not the R of ESC ] R is only buffered:
\* cursor, attributes, scroll region and screen stay as they were
StringHeld ==
    (/\ InString(before.inputBuf)
     /\ ~Terminated(before.inputBuf, lastData)
     /\ ~PaletteQuery(before.inputBuf, lastData))
        => OnlyBuffered

StringHeldWitness ==
    /\ InString(before.inputBuf)
    /\ Len(before.inputBuf) >= 3
    /\ lastData = <<LF>>
    /\ inputBuf = before.inputBuf \o <<LF>>
    /\ cursor.col > 0

(* -------------------------- piecewise delivery ------------------------- *)
\* ESC ] R
EscRBrackR == <<ESC, chRBrack, 82>>

\* well-formed escape sequences: two-byte, charset, CSI, OSC ended by BEL and
\* by ESC \, private, the palette query
WellFormed ==
    {EscC, <<ESC, 55>>, <<ESC, chLParen, ch0>>, Csi(Num(1), 109), Csi(Num(2), 72),
     <<ESC, chRBrack, ch0, chSemi, chA, BEL>>,
     <<ESC, chRBrack, 49, 49, ESC, chBackslash>>,
     <<ESC, chSlash, 100, chA, BEL>>, EscRBrackR}

\* writes that bring the device into different states before a delivery
FeedPreludes == {<<chA>>, <<LF>>, Csi(Num(7), 109), <<ESC, chLParen, ch0>>}

WritePrelude ==
    /\ ~feed.on
    /\ writes < MaxPrelude
    /\ \E data \in FeedPreludes : Write(data, 0)
    /\ UNCHANGED <<feed, framed, drawn, writeAt, alphaCell, pumpVars>>

\* the first k runes of seq in one Write
FeedStart ==
    /\ ~feed.on
    /\ inputBuf = <<>>
    /\ \E seq \in WellFormed : \E k \in 1..(Len(seq) - 1) :
          /\ Write(SubSeq(seq, 1, k), 0)
          /\ feed' = [on |-> TRUE, seq |-> seq, pos |-> k,
                      n |-> Len(dispatched'), start |-> Dev]
    /\ UNCHANGED <<framed, drawn, writeAt, alphaCell, pumpVars>>

\* the next rune of the sequence in a Write of its own
FeedByte ==
    /\ feed.on
    /\ feed.pos < Len(feed.seq)
    /\ \E slack \in 0..1 : Write(<<feed.seq[feed.pos + 1]>>, slack)
    /\ feed' = [feed EXCEPT !.pos = @ + 1, !.n = @ + Len(dispatched')]
    /\ UNCHANGED <<framed, drawn, writeAt, alphaCell, pumpVars>>

NextFeed == WritePrelude \/ FeedStart \/ FeedByte

SpecFeed == Init /\ [][NextFeed]_vars

\* the state of a delivery of seq of which pos runes have been written
Delivered(seq, pos) ==
    IF pos < Len(seq)
    THEN /\ ~consumeEscSequence(SubSeq(seq, 1, pos)).ok
         /\ ~panicked
         /\ inputBuf = SubSeq(seq, 1, pos)
         /\ feed.n = 0
    ELSE /\ feed.n = 1
         /\ SameDevice(Dev, WriteAll(feed.start, seq, 0))

\* C4: every truncated prefix of a well-formed sequence is incomplete, and
\* the rest delivered one rune per Write ends in exactly one dispatch and in
\* the state a single Write of the whole sequence gives
FramerComplete == feed.on => Delivered(feed.seq, feed.pos)

\* the sequences other than ESC ] R are delivered piecewise as they are whole
FramerCompleteButQuery ==
    (feed.on /\ feed.seq # EscRBrackR) =>
        /\ Delivered(feed.seq, feed.pos)
        /\ ~panicked

FramerCompleteButQueryWitness ==
    /\ feed.on
    /\ feed.seq = <<ESC, chRBrack, 49, 49, ESC, chBackslash>>
    /\ feed.pos = Len(feed.seq)
    /\ output # <<>>
    /\ feed.start.screen # NewDevice.screen

(* --------------------------- the palette query ------------------------- *)
\* what may follow the R of ESC ] R in one Write
QueryTails == {<<>>, <<chA>>, <<LF>>, <<chA, chA>>}

\* what the query specification writes
QueryInputs ==
    {EscRBrackR \o t : t \in QueryTails}
      \cup {<<chA>>, <<LF>>, <<BS>>, <<ESC, chRBrack>>, <<82>>}

WriteQuery ==
    /\ writes < MaxWrites
    /\ \E data \in QueryInputs : \E slack \in 0..1 : Write(data, slack)
    /\ UNCHANGED <<feed, framed, drawn, writeAt, alphaCell, pumpVars>>

NextQuery == WriteQuery

SpecQuery == Init /\ [][NextQuery]_vars

\* a Write of ESC ] R and tail in which the query ends after its R: the
\* three runes are dispatched, tail is interpreted as ordinary input
QueryThen(d, tail) ==
    WriteEnd(WriteLoop(HandleEscSequence(WriteBegin(d), EscRBrackR),
                       tail, 0, Len(tail)))

\* C11: ESC ] R ends after its R: the framer's end index is 3, what follows
\* the R in the Write is interpreted as ordinary input, and the Write
\* returns whether or not anything follows the R
QueryEndsAfterR ==
    \A t \in QueryTails :
        (writes > 0 /\ before.inputBuf = <<>> /\ lastData = EscRBrackR \o t) =>
            /\ consumeEscSequence(lastData).ok
            /\ consumeEscSequence(lastData).n = 3
            /\ ~panicked
            /\ SameDevice(Dev, QueryThen(before, t))

(* ------------------------------ line feeds ----------------------------- *)
\* ESC[1;3r and four line feeds
RegionFourLF == Region(1, 3) \o <<LF, LF, LF, LF>>

\* what the line feed specification writes
LineInputs ==
    {<<LF>>, <<VT>>, <<FF>>, <<chA>>, <<LF, LF, chA>>, Csi(<<>>, 72),
     Region(1, 2), Region(2, 3), RegionFourLF, RowPastEnd, Csi(Num(41), 109)}

WriteLine ==
    /\ writes < MaxWrites
    /\ \E data \in LineInputs : Write(data, 0)
    /\ UNCHANGED <<feed, framed, drawn, writeAt, alphaCell, pumpVars>>

NextLine == WriteLine

SpecLine == Init /\ [][NextLine]_vars

\* a cell holding no glyph
IsBlank(cell) == cell.r = 0 /\ cell.ts = "none" /\ cell.over = NoColor

\* screen s1 is screen s0 with the rows top..bot moved up by n, the n rows
\* at the bottom of the band blank and every other cell as it was
ScrolledUp(s0, s1, top, bot, n) ==
    \A p \in DOMAIN s0 :
        IF p \in GridCells /\ p[2] >= top /\ p[2] <= bot
        THEN IF p[2] + n <= bot THEN s1[p] = s0[<<p[1], p[2] + n>>]
             ELSE IsBlank(s1[p])
        ELSE s1[p] = s0[p]

\* C12: LF, VT and FF on the region's bottom row scroll the region up by one
\* and keep the row; elsewhere they increment the row only below rows-1; LF
\* sets col = 0; from inside the region the cursor never leaves it downwards;
\* ESC[1;3r and four LF from (0,0) end at (0,2), rows 1..3 scrolled up twice
LineFeedStep ==
    LET b == hideCursor(before)
        a == hideCursor(Dev)
        top == before.scrollRegion[1]
        bot == before.scrollRegion[2]
        row == before.cursor.row
    IN /\ (writes > 0 /\ before.inputBuf = <<>>
            /\ lastData \in {<<LF>>, <<VT>>, <<FF>>}) =>
              /\ ~panicked
              /\ cursor.col = IF lastData = <<LF>> THEN 0 ELSE before.cursor.col
              /\ IF row = bot
                 THEN /\ cursor.row = row
                      /\ ScrolledUp(b.screen, a.screen, top, bot, 1)
                 ELSE /\ cursor.row = IF row < Rows - 1 THEN row + 1 ELSE row
                      /\ a.screen = b.screen
              /\ (top <= row /\ row <= bot) => cursor.row <= bot
       /\ (writes > 0 /\ before.inputBuf = <<>> /\ lastData = RegionFourLF
            /\ before.cursor.col = 0 /\ row = 0) =>
              /\ ~panicked
              /\ cursor.col = 0 /\ cursor.row = 2
              /\ ScrolledUp(b.screen, a.screen, 0, 2, 2)

\* four line feeds under ESC[1;3r have brought the glyph of row 2 to row 0
LineFeedStepWitness ==
    /\ lastData = RegionFourLF
    /\ before.cursor.col = 0 /\ before.cursor.row = 0
    /\ before.screen[<<0, 2>>].r = chA
    /\ screen[<<0, 0>>].r = chA
    /\ cursor.row = 2

(* ----------------------------- cursor motion --------------------------- *)
\* an argument left out of a sequence
Missing == 0 - 1

\* the parameter bytes of the arguments args, Missing ones empty
RECURSIVE Params(_)
Params(args) ==
    IF args = <<>> THEN <<>>
    ELSE (IF args[1] = Missing THEN <<>> ELSE Num(args[1]))
           \o (IF Len(args) = 1 THEN <<>> ELSE <<chSemi>> \o Params(Tail(args)))

\* the cursor motions: CSI A B C D E F G d with no argument, 0, 2 and a
\* number past every row and column; CSI H and f with none, one and two
MotionFinals == {65, 66, 67, 68, 69, 70, 71, 100}

Motions ==
    [fin : MotionFinals, args : {<<>>, <<0>>, <<2>>, <<Rows + Cols + 6>>}]
      \cup [fin : {72, 102},
            args : {<<>>, <<2>>, <<2, 2>>, <<0, 0>>, <<Missing, 2>>,
                    <<Rows + 6, Cols + 6>>}]

MotionSeq(m) == Csi(Params(m.args), m.fin)

\* what the motion specification writes
MotionInputs == {MotionSeq(m) : m \in Motions} \cup {<<chA>>, FullLine}

WriteMotion ==
    /\ writes < MaxWrites
    /\ \E data \in MotionInputs : Write(data, 0)
    /\ UNCHANGED <<feed, framed, drawn, writeAt, alphaCell, pumpVars>>

NextMotion == WriteMotion

SpecMotion == Init /\ [][NextMotion]_vars

\* argument k of m, 1 when it is left out; for CSI H and f a zero counts as 1
MotionArg(m, k) ==
    IF Len(m.args) < k \/ m.args[k] = Missing THEN 1
    ELSE IF m.fin \in {72, 102} /\ m.args[k] = 0 THEN 1
    ELSE m.args[k]

\* the position motion m requests from the cursor at col, row
MotionTarget(m, col, row) ==
    LET n == MotionArg(m, 1)
    IN CASE m.fin = 65 -> <<col, row - n>>
         [] m.fin = 66 -> <<col, row + n>>
         [] m.fin = 67 -> <<col + n, row>>
         [] m.fin = 68 -> <<col - n, row>>
         [] m.fin = 69 -> <<0, row + n>>
         [] m.fin = 70 -> <<0, row - n>>
         [] m.fin = 71 -> <<n - 1, row>>
         [] m.fin = 100 -> <<col, n - 1>>
         [] OTHER -> <<MotionArg(m, 2) - 1, n - 1>>

\* C13: after CSI A, B, C, D, E, F, G, H, f or d the cursor is at the
\* requested target clamped to col in [0, cols-1] and row in [0, rows-1];
\* CSI r;c H goes to row r-1, col c-1, missing or zero arguments being 1
MotionClamped ==
    \A m \in Motions :
        (writes > 0 /\ before.inputBuf = <<>> /\ lastData = MotionSeq(m)) =>
            LET t == MotionTarget(m, before.cursor.col, before.cursor.row)
            IN /\ ~panicked
               /\ cursor.col = Max2(0, Min2(Cols - 1, t[1]))
               /\ cursor.row = Max2(0, Min2(Rows - 1, t[2]))

(* ------------------------ insert and delete lines ---------------------- *)
\* CSI N L and CSI N M with no N, 1, 2 and an N past every row
LineCounts == {<<>>, <<1>>, <<2>>, <<Rows + 1>>}

LineOps == {Csi(Params(n), fin) : n \in LineCounts, fin \in {76, 77}}

\* what the insert/delete line specification writes
LineOpInputs ==
    LineOps \cup {<<chA>>, <<LF>>, Csi(<<>>, 65), Csi(<<>>, 72),
                  Region(1, 2), Region(2, 3)}

WriteLineOp ==
    /\ writes < MaxWrites
    /\ \E data \in LineOpInputs : Write(data, 0)
    /\ UNCHANGED <<feed, framed, drawn, writeAt, alphaCell, pumpVars>>

NextLineOp == WriteLineOp

SpecLineOp == Init /\ [][NextLineOp]_vars

\* C14: CSI N L and CSI N M change nothing above the cursor row and nothing
\* below the scroll region's bottom row, and leave the scroll region and the
\* scroll area as they were
LineOpFramed ==
    (writes > 0 /\ before.inputBuf = <<>> /\ lastData \in LineOps) =>
        /\ ~panicked
        /\ scrollRegion = before.scrollRegion
        /\ scrollArea = before.scrollArea
        /\ \A p \in GridCells :
              (p[2] < before.cursor.row \/ p[2] > before.scrollRegion[2]) =>
                  hideCursor(Dev).screen[p] = hideCursor(before).screen[p]

(* ------------------------------ CSI S and T ---------------------------- *)
\* CSI N S and CSI N T with no N, 1, 2 and an N past every row
ScrollOps == [fin : {83, 84}, n : {Missing, 1, 2, Rows + 1}]

ScrollSeq(m) == Csi(Params(<<m.n>>), m.fin)

\* what the scroll specification writes
ScrollInputs ==
    {ScrollSeq(m) : m \in ScrollOps}
      \cup {<<chA>>, <<LF>>, Region(1, 2), Region(2, 3), Csi(Num(41), 109)}

WriteScroll ==
    /\ writes < MaxWrites
    /\ \E data \in ScrollInputs : Write(data, 0)
    /\ UNCHANGED <<feed, framed, drawn, writeAt, alphaCell, pumpVars>>

NextScroll == WriteScroll

SpecScroll == Init /\ [][NextScroll]_vars

\* C15: CSI N S and CSI N T change no cell in a row outside the scroll
\* region, for every N >= 1, and the band they expose inside the region is
\* blank in the current background
ScrollFramed ==
    \A m \in ScrollOps :
        (writes > 0 /\ before.inputBuf = <<>> /\ lastData = ScrollSeq(m)) =>
            LET n == IF m.n = Missing THEN 1 ELSE m.n
                top == before.scrollRegion[1]
                bot == before.scrollRegion[2]
                b == hideCursor(before)
                a == hideCursor(Dev)
                exposed == IF m.fin = 83
                           THEN Max2(top, bot - n + 1)..bot
                           ELSE top..Min2(bot, top + n - 1)
            IN /\ ~panicked
               /\ \A p \in GridCells :
                     /\ (p[2] < top \/ p[2] > bot) => a.screen[p] = b.screen[p]
                     /\ p[2] \in exposed => a.screen[p] = Blank(before.attr.Bg)

\* CSI n S and CSI n T after it, in one Write
ScrollUpDown(n) == Csi(Num(n), 83) \o Csi(Num(n), 84)

\* what the round trip specification writes
UpDownInputs ==
    {ScrollUpDown(n) : n \in 1..(Rows - 1)}
      \cup {<<chA>>, <<LF>>, Region(2, 3), Csi(Num(41), 109)}

WriteUpDown ==
    /\ writes < MaxWrites
    /\ \E data \in UpDownInputs : Write(data, 0)
    /\ UNCHANGED <<feed, framed, drawn, writeAt, alphaCell, pumpVars>>

NextUpDown == WriteUpDown

SpecUpDown == Init /\ [][NextUpDown]_vars

\* C28: a scroll up by n rows and a scroll down by n rows after it, n below
\* the height of the region, leave every cell as it was but the n rows at
\* the top of the region, which the scroll down cleared: the other rows of
\* the region have their content back, and no cell outside the region changes
ScrollUpThenDown ==
    \A n \in 1..(Rows - 1) :
        (lastData = ScrollUpDown(n) /\ before.inputBuf = <<>>
           /\ n < before.scrollRegion[2] - before.scrollRegion[1] + 1) =>
            \A p \in DOMAIN screen :
                \/ /\ p \in GridCells
                   /\ p[2] >= before.scrollRegion[1]
                   /\ p[2] < before.scrollRegion[1] + n
                \/ screen[p] = before.screen[p]

\* the terminal was scrolled up and down by one: the second row has its
\* glyph back, the first row lost its glyph to the cleared band
ScrollUpThenDownWitness ==
    /\ lastData = ScrollUpDown(1)
    /\ before.inputBuf = <<>>
    /\ before.scrollRegion = <<0, Rows - 1>>
    /\ before.screen[<<0, 0>>].r = chA
    /\ before.screen[<<0, 1>>].r = chA
    /\ IsBlank(screen[<<0, 0>>])
    /\ screen[<<0, 1>>].r = chA

(* ---------------------- insert and delete characters ------------------- *)
\* the glyph B
chB == 66

\* CSI N P and CSI N @ with no N, 1, 2 and an N past every column
CharOps == [fin : {80, 64}, n : {Missing, 1, 2, Cols + 1}]

CharSeq(m) == Csi(Params(<<m.n>>), m.fin)

\* what the character specification writes
CharInputs ==
    {CharSeq(m) : m \in CharOps}
      \cup {<<chA>>, <<chA, chB>>, <<CR>>, <<BS>>, <<LF>>}

WriteChars ==
    /\ writes < MaxWrites
    /\ \E data \in CharInputs : Write(data, 0)
    /\ UNCHANGED <<feed, framed, drawn, writeAt, alphaCell, pumpVars>>

NextChars == WriteChars

SpecChars == Init /\ [][NextChars]_vars

\* C16: CSI N P moves the cells from col+N to the end of the cursor row left
\* by N, blanks the cells vacated at the end of the row, and changes no cell
\* left of the cursor column or on another row, for every N >= 1
DeleteChars ==
    \A m \in CharOps :
        (writes > 0 /\ before.inputBuf = <<>> /\ m.fin = 80
         /\ lastData = CharSeq(m)) =>
            LET n == IF m.n = Missing THEN 1 ELSE m.n
                col == before.cursor.col
                b == hideCursor(before)
                a == hideCursor(Dev)
            IN /\ ~panicked
               /\ \A p \in GridCells :
                     IF p[2] # before.cursor.row \/ p[1] < col
                     THEN a.screen[p] = b.screen[p]
                     ELSE IF p[1] + n <= Cols - 1
                     THEN a.screen[p] = b.screen[<<p[1] + n, p[2]>>]
                     ELSE IsBlank(a.screen[p])

\* C17: CSI N @ leaves N blank cells at the cursor column, the cells that
\* were at col .. cols-1-N sit N columns further right, and no other row
\* changes
InsertChars ==
    \A m \in CharOps :
        (writes > 0 /\ before.inputBuf = <<>> /\ m.fin = 64
         /\ lastData = CharSeq(m)) =>
            LET n == IF m.n = Missing THEN 1 ELSE m.n
                col == before.cursor.col
                b == hideCursor(before)
                a == hideCursor(Dev)
            IN /\ ~panicked
               /\ \A p \in GridCells :
                     IF p[2] # before.cursor.row \/ p[1] < col
                     THEN a.screen[p] = b.screen[p]
                     ELSE IF p[1] < col + n
                     THEN IsBlank(a.screen[p])
                     ELSE a.screen[p] = b.screen[<<p[1] - n, p[2]>>]

(* ------------------------------ 256 colors ----------------------------- *)
\* SGR 38;5;N and 48;5;N: a base color, cube colors, a gray, the last index,
\* and indexes past the palette
ColorOps == [sel : {38, 48}, n : {0, 9, 16, 231, 255, 256, 265}]

ColorSeq(m) == Csi(Params(<<m.sel, 5, m.n>>), 109)

\* what the color specification writes
ColorInputs ==
    {ColorSeq(m) : m \in ColorOps} \cup {Sgr0, Csi(Num(7), 109), <<chA>>}

WriteColor ==
    /\ writes < MaxWrites
    /\ \E data \in ColorInputs : Write(data, 0)
    /\ UNCHANGED <<feed, framed, drawn, writeAt, alphaCell, pumpVars>>

NextColor == WriteColor

SpecColor == Init /\ [][NextColor]_vars

\* C18: SGR 38;5;N sets the foreground, SGR 48;5;N the background, to
\* palette256[N mod 256], for every N >= 0
Color256 ==
    \A m \in ColorOps :
        (writes > 0 /\ before.inputBuf = <<>> /\ lastData = ColorSeq(m)) =>
            /\ ~panicked
            /\ attr.Fg = IF m.sel = 38 THEN palette256(m.n % 256) ELSE before.attr.Fg
            /\ attr.Bg = IF m.sel = 48 THEN palette256(m.n % 256) ELSE before.attr.Bg

(* ------------------------------ the framer ----------------------------- *)
\* the runes the framer specification composes its inputs of
FrameRunes ==
    {ESC, chLBrack, chRBrack, 88, 80, chSlash, chLParen, 82, BEL, chBackslash,
     49, DEL, 109}

\* ESC and up to MaxFrame - 1 runes after it
FramerInputs ==
    UNION {{<<ESC>> \o t : t \in [1..k -> FrameRunes]} : k \in 0..(MaxFrame - 1)}

\* the framer specification starts with an input chosen and not yet framed
InitFramer ==
    /\ InitDevice
    /\ lastData = <<>>
    /\ before = NewDevice
    /\ writes = 0
    /\ feed = NoFeed
    /\ drawn = NotDrawn
    /\ writeAt = NoWriteAt
    /\ alphaCell = NoAlphaCell
    /\ InitPump
    /\ \E data \in FramerInputs :
          framed = [data |-> data, n |-> 0, ok |-> FALSE, called |-> FALSE]

\* the call of consumeEscSequence on the chosen input
Frame ==
    /\ ~framed.called
    /\ framed' = [data |-> framed.data, n |-> consumeEscSequence(framed.data).n,
                  ok |-> consumeEscSequence(framed.data).ok, called |-> TRUE]
    /\ UNCHANGED <<devVars, lastData, before, writes, feed, drawn, writeAt, alphaCell, pumpVars>>

NextFramer == Frame

SpecFramer == InitFramer /\ [][NextFramer]_vars

\* the positions of data, ESC being position 1, that end a CSI by the table
CsiEnds(data) == {j \in 3..Len(data) : data[j] >= 64 /\ data[j] <= 126}

\* the positions of data that end a string sequence: BEL, the backslash of ESC \
StringEnds(data) ==
    {j \in 3..Len(data) :
        data[j] = BEL \/ (data[j] = chBackslash /\ data[j - 1] = ESC)}

\* the least element of a nonempty set of numbers
Least(S) == CHOOSE j \in S : \A k \in S : j <= k

\* the end index the termination table gives data, 0 when data is incomplete
TableEnd(data) ==
    IF Len(data) < 2 THEN 0
    ELSE IF data[2] = chLBrack
         THEN IF CsiEnds(data) = {} THEN 0 ELSE Least(CsiEnds(data))
    ELSE IF data[2] \in {chRBrack, 88, 80, chSlash}
         THEN IF StringEnds(data) = {} THEN 0 ELSE Least(StringEnds(data))
    ELSE IF data[2] \in {chLParen, chRParen}
         THEN IF Len(data) < 3 THEN 0 ELSE 3
    ELSE 2

\* C10: the framer returns the end index of the termination table, and
\* reports incomplete where the table gives none
FramerTable ==
    framed.called =>
        /\ framed.ok = (TableEnd(framed.data) # 0)
        /\ framed.ok => framed.n = TableEnd(framed.data)

(* ------------------------------ write pump ----------------------------- *)
\* what the producers of the pump specification write
PumpInputs == {<<chA, chA>>, <<LF, chA>>, <<ESC, chLBrack>>, <<49, 109>>}

\* the public Write of the pump build: the call's bytes, copied, go onto the
\* bounded queue as one element; a full queue blocks the producer
Enqueue ==
    /\ Len(sent) < MaxCalls
    /\ Len(writeQueue) < MaxQueue
    /\ \E data \in PumpInputs :
          LET call == [id |-> Len(sent) + 1, data |-> data]
          IN /\ writeQueue' = Append(writeQueue, call)
             /\ sent' = Append(sent, call)
    /\ UNCHANGED <<devVars, lastData, before, writes, feed, framed, drawn, writeAt, alphaCell, pump, done,
                   interp, display>>

\* a receive that takes the newest element of the queue
ReceiveNewest(q) ==
    [call |-> q[Len(q)], rest |-> SubSeq(q, 1, Len(q) - 1)]

\* data := <-d.writeQueue: a channel hands over its oldest element
Receive(q) == [call |-> Head(q), rest |-> Tail(q)]

\* a select that takes a call off the queue and lets it go uninterpreted
PumpReceiveDrop ==
    /\ pump.pc = "select"
    /\ ~panicked
    /\ writeQueue # <<>>
    /\ writeQueue' = Tail(writeQueue)
    /\ UNCHANGED <<devVars, lastData, before, writes, feed, framed, drawn, writeAt, alphaCell, pump, done,
                   sent, interp, display>>

\* queueHandler's select takes a call off the queue and d.write begins:
\* the cursor is un-inverted and inputBuf is prepended
PumpReceive ==
    /\ pump.pc = "select"
    /\ ~panicked
    /\ writeQueue # <<>>
    /\ \E slack \in 0..1 :
          LET m == Receive(writeQueue)
              runes == inputBuf \o m.call.data
          IN /\ writeQueue' = m.rest
             /\ pump' = [pc |-> "write", id |-> m.call.id, runes |-> runes, i |-> 0,
                         cap |-> Len(runes) + (IF inputBuf # <<>> THEN slack ELSE 0),
                         base |-> Len(inputBuf)]
             /\ SetDev(WriteBegin(Dev))
             /\ lastData' = m.call.data
    /\ before' = Dev
    /\ writes' = writes + 1
    /\ UNCHANGED <<feed, framed, drawn, writeAt, alphaCell, done, sent, interp, display>>

\* the runes of the current call among the 0-based positions lo..hi-1 of runes
Consumed(lo, hi) ==
    LET from == Max2(lo, pump.base)
        to == Min2(hi, Len(pump.runes))
    IN [k \in 1..Max2(to - from, 0) |-> <<pump.id, from - pump.base + k>>]

\* the device and index an iteration of d.write's loop leaves behind
Stepped(s) ==
    /\ SetDev(s.d)
    /\ pump' = [pump EXCEPT !.i = s.i]
    /\ interp' = interp \o Consumed(pump.i, s.i)

\* one iteration of d.write's loop
PumpStep ==
    /\ pump.pc = "write"
    /\ ~panicked
    /\ pump.i < Len(pump.runes)
    /\ Stepped(WriteIter(Dev, pump.runes, pump.i, pump.cap))
    /\ UNCHANGED <<lastData, before, writes, feed, framed, drawn, writeAt, alphaCell, writeQueue, done, sent,
                   display>>

\* d.write returns: the cursor is shown again, queueHandler selects again
PumpReturn ==
    /\ pump.pc = "write"
    /\ ~panicked
    /\ pump.i >= Len(pump.runes)
    /\ SetDev(showCursor(Dev))
    /\ pump' = PumpIdle
    /\ UNCHANGED <<lastData, before, writes, feed, framed, drawn, writeAt, alphaCell, writeQueue, done, sent,
                   interp, display>>

\* the tick case of queueHandler's select: BlinkCursor toggles the cursor
Tick ==
    /\ pump.pc = "select"
    /\ ~panicked
    /\ cursor.show
    /\ SetDev(toggleCursor(Dev))
    /\ UNCHANGED <<lastData, before, writes, feed, framed, drawn, writeAt, alphaCell, pumpVars>>

\* the stop signal
Stop ==
    /\ ~done
    /\ done' = TRUE
    /\ UNCHANGED <<devVars, lastData, before, writes, feed, framed, drawn, writeAt, alphaCell, writeQueue,
                   pump, sent, interp, display>>

\* a done case that goes round the loop again
PumpStopLoops ==
    /\ pump.pc = "select"
    /\ done
    /\ UNCHANGED vars

\* the done case of queueHandler's select: the handler returns
PumpStop ==
    /\ pump.pc = "select"
    /\ done
    /\ pump' = [pump EXCEPT !.pc = "stopped"]
    /\ UNCHANGED <<devVars, lastData, before, writes, feed, framed, drawn, writeAt, alphaCell, writeQueue,
                   done, sent, interp, display>>

NextPump == Enqueue \/ PumpReceive \/ PumpStep \/ PumpReturn \/ Tick \/ Stop \/ PumpStop

SpecPump == Init /\ [][NextPump]_vars

\* the runes of the calls of q, each <<call, index>>, call after call
RECURSIVE Stream(_)
Stream(q) ==
    IF q = <<>> THEN <<>>
    ELSE [k \in 1..Len(Head(q).data) |-> <<Head(q).id, k>>] \o Stream(Tail(q))

\* C3: the runes are interpreted call by call in enqueue order: what has
\* been interpreted is a prefix of the enqueued calls laid end to end
InEnqueueOrder ==
    /\ Len(interp) <= Len(Stream(sent))
    /\ interp = SubSeq(Stream(sent), 1, Len(interp))

InEnqueueOrderWitness ==
    /\ pump.pc = "write"
    /\ pump.id = 1
    /\ pump.i > 0
    /\ pump.i < Len(pump.runes)
    /\ Len(writeQueue) = 2
    /\ writeQueue[1].data # writeQueue[2].data

(* ----------------------------- pump progress -------------------------- *)
\* the loop of d.write moves on: the steps of PumpStep, told by the loop
\* index, the one thing of pump that an iteration changes
LoopAdvances ==
    /\ pump.pc = "write"
    /\ ~panicked
    /\ pump.i < Len(pump.runes)
    /\ \E j \in (pump.i + 1)..(Len(pump.runes) + 1) : pump' = [pump EXCEPT !.i = j]

\* queueHandler under Go's scheduling: the goroutine keeps running, so a
\* write in progress goes on to its end, and select picks among its ready
\* cases at random, so a waiting queue element is not passed over for ever
\* by ticks
SpecPumpLive ==
    /\ Init
    /\ [][NextPump]_vars
    /\ WF_vars(PumpReceive)
    /\ WF_pump(LoopAdvances)
    /\ WF_vars(PumpReturn)

\* a rune of call k has been interpreted
Started(k) == \E j \in 1..Len(interp) : interp[j][1] = k

\* the last rune of call k has been interpreted
Finished(k) ==
    /\ k <= Len(sent)
    /\ \E j \in 1..Len(interp) : interp[j] = <<k, Len(sent[k].data)>>

\* at most the call the consumer is in is partly interpreted
OneAtATime ==
    \A k \in 1..Len(sent) :
        (Started(k) /\ ~Finished(k)) => (pump.pc = "write" /\ pump.id = k)

\* C20: unless the stop signal is sent, every buffer Write has accepted is
\* eventually interpreted to its end, ticks or not, and the consumer is
\* never inside two buffers at once
EventuallyInterpreted ==
    /\ []OneAtATime
    /\ \A k \in 1..MaxCalls : (Len(sent) >= k) ~> (Finished(k) \/ done)

\* the second of two accepted buffers has been interpreted to its end, no
\* stop signal sent, a tick having taken the cursor off the screen
EventuallyInterpretedWitness ==
    /\ Len(sent) >= 2
    /\ Finished(2)
    /\ ~done
    /\ pump.pc = "select"
    /\ cursor.show /\ ~cursor.visible

(* ------------------------------ pump stop ------------------------------ *)
\* queueHandler with a stop signal pending: select picks among its ready
\* cases at random, so the done case, ready each time the handler is back
\* at the select, is taken in the end
SpecPumpStop ==
    /\ Init
    /\ [][NextPump]_vars
    /\ WF_vars(PumpReceive)
    /\ WF_pump(LoopAdvances)
    /\ WF_vars(PumpReturn)
    /\ SF_vars(PumpStop)

\* C21: once the stop signal is sent the consumer eventually returns, and
\* after its return nothing is interpreted, queued or written later, and no
\* tick toggles the cursor
StopTerminates ==
    /\ done ~> (pump.pc = "stopped")
    /\ [][pump.pc = "stopped" => UNCHANGED <<devVars, interp, pump>>]_vars

\* the consumer has returned with a buffer still queued and the cursor shown
StopTerminatesWitness ==
    /\ pump.pc = "stopped"
    /\ done
    /\ writeQueue # <<>>
    /\ Len(interp) > 0
    /\ cursor.show

(* --------------------------- cursor visibility ------------------------- *)
\* ESC [ ? 25 l and ESC [ ? 25 h
CursorOff == Csi(<<chQuest>> \o Num(25), 108)

CursorOn == Csi(<<chQuest>> \o Num(25), 104)

\* what the cursor specification writes
CursorInputs == {<<chA>>, <<LF>>, <<chA, LF, chA>>, CursorOff, CursorOn, EscC}

\* Device.Write is entered with data: the call of DisplayFunc is deferred if it
\* is set, the cursor is un-inverted, inputBuf is prepended
WriteEntered(data) ==
    /\ pump' = [pc |-> "write", id |-> writes + 1,
                runes |-> inputBuf \o data, i |-> 0,
                cap |-> Len(inputBuf \o data), base |-> Len(inputBuf)]
    /\ lastData' = data
    /\ SetDev(WriteBegin(Dev))
    /\ before' = Dev
    /\ writes' = writes + 1
    /\ display' = [display EXCEPT !.entered = Append(@, display.set)]
    /\ UNCHANGED <<feed, framed, drawn, writeAt, alphaCell, writeQueue, done, sent, interp>>

\* a Write of the cursor specification begins
WriteEnter ==
    /\ pump.pc = "select"
    /\ ~panicked
    /\ writes < MaxWrites
    /\ \E data \in CursorInputs : WriteEntered(data)

NextCursor == WriteEnter \/ PumpStep \/ PumpReturn \/ Tick

SpecCursor == Init /\ [][NextCursor]_vars

\* C19: while the bytes of a Write are interpreted cursor.visible is false,
\* and when a Write returns cursor.visible equals cursor.show, whatever was
\* written and whatever blink ticks came between the Writes
CursorHiddenShown ==
    /\ [](pump.pc = "write" => ~cursor.visible)
    /\ [][(pump.pc = "write" /\ pump'.pc = "select")
            => (cursor'.visible = cursor'.show)]_vars

\* a Write of ESC[?25l has returned after an earlier Write and a blink tick
\* that had taken the cursor off the screen
CursorHiddenShownWitness ==
    /\ pump.pc = "select"
    /\ lastData = CursorOff
    /\ writes >= 2
    /\ before.cursor.show /\ ~before.cursor.visible
    /\ ~cursor.show /\ ~cursor.visible

(* ----------------------------- DisplayFunc ----------------------------- *)
\* what an invocation of DisplayFunc finds: the Write it belongs to, the runes
\* of that Write not yet interpreted, whether the cursor is painted as
\* cursor.show asks, and the runes interpreted so far
DisplayCall(d) ==
    [id |-> pump.id, left |-> Len(pump.runes) - pump.i,
     painted |-> (d.cursor.visible = d.cursor.show), interp |-> Len(interp)]

\* DisplayFunc invoked as Write left the device, before the cursor is shown
DeferredDisplayFirst(d) ==
    /\ SetDev(d)
    /\ display' = IF display.entered[pump.id]
                  THEN [display EXCEPT !.calls = Append(@, DisplayCall(Dev))]
                  ELSE display

\* the deferred calls of Write, last deferred first: showCursor has run and
\* left d, then DisplayFunc is invoked if Write found it set, then Unlock
Deferred(d) ==
    /\ SetDev(d)
    /\ display' = IF display.entered[pump.id]
                  THEN [display EXCEPT !.calls = Append(@, DisplayCall(d))]
                  ELSE display

\* Device.Write returns
WriteReturn ==
    /\ pump.pc = "write"
    /\ ~panicked
    /\ pump.i >= Len(pump.runes)
    /\ Deferred(showCursor(Dev))
    /\ pump' = PumpIdle
    /\ UNCHANGED <<lastData, before, writes, feed, framed, drawn, writeAt, alphaCell, writeQueue, done, sent,
                   interp>>

\* the host sets Render.DisplayFunc, or sets it to nil, between two Writes
SetDisplayFunc ==
    /\ pump.pc = "select"
    /\ display' = [display EXCEPT !.set = ~@]
    /\ UNCHANGED <<devVars, lastData, before, writes, feed, framed, drawn, writeAt, alphaCell, writeQueue,
                   pump, done, sent, interp>>

\* what the display specification writes
DisplayInputs == {<<chA, LF, chA>>, CursorOff, CursorOn}

\* a Write of the display specification begins
DisplayEnter ==
    /\ pump.pc = "select"
    /\ ~panicked
    /\ writes < MaxWrites
    /\ \E data \in DisplayInputs : WriteEntered(data)

NextDisplay == DisplayEnter \/ PumpStep \/ WriteReturn \/ Tick \/ SetDisplayFunc

SpecDisplay == Init /\ [][NextDisplay]_vars

\* the invocations of DisplayFunc that belong to Write k
DisplayCalls(k) == {j \in DOMAIN display.calls : display.calls[j].id = k}

\* Write k has returned
WriteReturned(k) == k < writes \/ (k = writes /\ pump.pc = "select")

\* C22: a Write that found DisplayFunc set invokes it exactly once, and has
\* done so when it returns, so before a rune of the next Write is interpreted;
\* the invocation finds every rune of its Write interpreted and the cursor
\* painted again; a Write that found DisplayFunc nil invokes nothing
DisplayOncePerWrite ==
    /\ Len(display.entered) = writes
    /\ \A k \in 1..writes :
          Cardinality(DisplayCalls(k)) =
             IF WriteReturned(k) /\ display.entered[k] THEN 1 ELSE 0
    /\ \A j \in DOMAIN display.calls :
          LET c == display.calls[j]
          IN /\ c.left = 0
             /\ c.painted
             /\ \A n \in 1..Len(interp) : interp[n][1] > c.id => n > c.interp
             /\ \A n \in 1..Len(interp) : interp[n][1] = c.id => n <= c.interp

\* the second of two Writes that found DisplayFunc set has returned, after a
\* blink tick had taken the cursor off the screen, and a Write before them
\* found DisplayFunc nil
DisplayOncePerWriteWitness ==
    /\ pump.pc = "select"
    /\ writes = 3
    /\ display.entered = <<FALSE, TRUE, TRUE>>
    /\ Len(display.calls) = 2
    /\ before.cursor.show /\ ~before.cursor.visible
    /\ cursor.visible
    /\ Len(lastData) = 3

(* ---------------------------- configuration ---------------------------- *)
\* ESC [ ? n h and ESC [ ? n l for the cursor key mode, wraparound and local
\* echo, and ESC ] 0 ; A BEL, the window title
ConfigOps ==
    {Csi(<<chQuest>> \o Num(n), fin) : n \in {1, 7, 12}, fin \in {104, 108}}
      \cup {<<ESC, chRBrack, 48, chSemi, chA, BEL>>,
            <<ESC, chRBrack, 48, chSemi, chB, BEL>>}

\* what the configuration specification writes
ConfigInputs == ConfigOps \cup {<<chA>>, <<LF>>}

WriteConfig ==
    /\ writes < MaxWrites
    /\ \E data \in ConfigInputs : Write(data, 0)
    /\ UNCHANGED <<feed, framed, drawn, writeAt, alphaCell, pumpVars>>

NextConfig == WriteConfig

SpecConfig == Init /\ [][NextConfig]_vars

\* C24: a Write of an escape sequence that changes a configuration option
\* (the cursor key mode, wraparound, the window title) invokes ConfigUpdate
ConfigUpdateFollows ==
    (lastData \in ConfigOps /\ (config # before.config \/ title # before.title))
        => configUpdates >= 1

(* ------------------------------- reports ------------------------------- *)
\* CSI 6 n and CSI 5 n
ReportCursor == Csi(Num(6), 110)

ReportStatus == Csi(Num(5), 110)

\* CSI 18 t and CSI 19 t
ReportCells == Csi(Num(18), 116)

ReportPixels == Csi(Num(19), 116)

\* ESC / A x,y BEL and ESC / a x,y BEL
ColorQuery(which, x, y) ==
    <<ESC, chSlash, which>> \o Num(x) \o <<chComma>> \o Num(y) \o <<BEL>>

\* what the report specification writes: printables and motion that take the
\* cursor to every column and row, and the queries
ReportInputs ==
    {<<chA>>, FullLine, <<LF>>, RowPastEnd, ReportCursor, ReportStatus,
     ReportCells, ReportPixels,
     ColorQuery(65, 0, 0), ColorQuery(65, CellW, CellH), ColorQuery(97, 0, 0)}

WriteReport ==
    /\ writes < MaxWrites
    /\ \E data \in ReportInputs : Write(data, 0)
    /\ UNCHANGED <<feed, framed, drawn, writeAt, alphaCell, pumpVars>>

NextReport == WriteReport

SpecReport == Init /\ [][NextReport]_vars

\* ESC [ r ; c R
PositionReply(r, c) ==
    <<ESC, chLBrack>> \o FmtInt(r) \o <<chSemi>> \o FmtInt(c) \o <<82>>

\* C25 as stated: CSI 6 n writes exactly ESC [ row+1 ; col+1 R, the two
\* numbers within 1..rows and 1..cols; CSI 5 n writes exactly ESC [ 0 n
CursorReportStated ==
    /\ lastData = ReportCursor =>
          /\ output = <<PositionReply(before.cursor.row + 1, before.cursor.col + 1)>>
          /\ before.cursor.row + 1 \in 1..Rows
          /\ before.cursor.col + 1 \in 1..Cols
    /\ lastData = ReportStatus => output = <<<<ESC, chLBrack, 48, 110>>>>

\* C25: CSI 6 n writes exactly ESC [ r ; c R with r the smaller of row+1 and
\* rows and c the smaller of col+1 and cols, so that a cursor past the last
\* column, its wrap pending, is reported in the last column; CSI 5 n writes
\* exactly ESC [ 0 n
CursorReportClamped ==
    /\ lastData = ReportCursor =>
          output = <<PositionReply(Min2(before.cursor.row + 1, Rows),
                                   Min2(before.cursor.col + 1, Cols))>>
    /\ lastData = ReportStatus => output = <<<<ESC, chLBrack, 48, 110>>>>

\* CSI 6 n written with the cursor past the last column of the second row
CursorReportClampedWitness ==
    /\ lastData = ReportCursor
    /\ before.cursor.col = Cols
    /\ before.cursor.row = 1
    /\ output = <<PositionReply(2, Cols)>>

\* ESC [ k ; a ; b t
SizeReply(k, a, b) ==
    <<ESC, chLBrack>> \o FmtInt(k) \o <<chSemi>> \o FmtInt(a) \o <<chSemi>>
        \o FmtInt(b) \o <<116>>

\* C26: CSI 18 t replies exactly ESC [ 8 ; rows ; cols t and CSI 19 t replies
\* exactly ESC [ 9 ; heightPx ; widthPx t, the fields separated by semicolons
SizeReports ==
    /\ lastData = ReportCells => output = <<SizeReply(8, Rows, Cols)>>
    /\ lastData = ReportPixels =>
          output = <<SizeReply(9, RenderBounds.y1 - RenderBounds.y0,
                               RenderBounds.x1 - RenderBounds.x0)>>

\* reply is ESC / which x,y ; # and six more runes and BEL
IsColorReply(reply, which, x, y) ==
    LET head == <<ESC, chSlash, which>> \o Num(x) \o <<chComma>> \o Num(y)
                   \o <<chSemi, chHash>>
    IN /\ Len(reply) = Len(head) + 7
       /\ SubSeq(reply, 1, Len(head)) = head
       /\ reply[Len(reply)] = BEL

\* C27: the color query ESC / A x,y (and ESC / a x,y) writes exactly one
\* reply ESC / A x,y ; #RRGGBB BEL (ESC / a ...) that echoes the x,y asked
\* for, and nothing else
ColorQueryReply ==
    \A which \in {65, 97} : \A x \in {0, CellW} : \A y \in {0, CellH} :
        lastData = ColorQuery(which, x, y) =>
            /\ Len(output) = 1
            /\ IsColorReply(output[1], which, x, y)

(* ------------------------------ tile sets ------------------------------ *)
\* A tile set is a record: a font with the code points it has glyphs for
\* (FontTileSet), the package's Fallback, a list of tile sets searched in
\* order (MultiTileSet), or a tile set behind a table of code points (Remap).
chQ == 113
HLine == 9472

Font(name, glyphs) == [kind |-> "font", name |-> name, glyphs |-> glyphs]

\* tiles.Fallback as the package initialises it
Fallback == [kind |-> "fallback"]

MultiTileSet(sets) == [kind |-> "multi", sets |-> sets]

Remap(base, map) == [kind |-> "remap", base |-> base, map |-> map]

\* drawTile with EmptyTile: every pixel of the cell is set to bg
EmptyTile(bg) == Blank(bg)

\* the glyph of r in font name, in fg over bg
Glyph(name, r, fg, bg) ==
    [r |-> r, ts |-> name, fg |-> fg, bg |-> bg,
     deco |-> {}, inv |-> FALSE, over |-> NoColor]

\* Remap: r through the table
Remapped(t, r) == IF r \in DOMAIN t.map THEN t.map[r] ELSE r

\* GetTile's second result: the tile set has a tile for r
RECURSIVE GetTile(_, _)
GetTile(t, r) ==
    CASE t.kind = "font" -> r \in t.glyphs
      [] t.kind = "fallback" -> TRUE
      [] t.kind = "multi" -> \E k \in DOMAIN t.sets : GetTile(t.sets[k], r)
      [] t.kind = "remap" -> GetTile(t.base, Remapped(t, r))

RECURSIVE DrawTile(_, _, _, _)
RECURSIVE DrawFirstOnly(_, _, _, _, _)
RECURSIVE DrawFirst(_, _, _, _, _)

\* a search that gives up after the member it is asked to start with
DrawFirstOnly(sets, k, r, fg, bg) ==
    IF k > Len(sets) \/ ~GetTile(sets[k], r) THEN EmptyTile(bg)
    ELSE DrawTile(sets[k], r, fg, bg)

\* MultiTileSet.DrawTile: the members from the k-th on, in list order; the
\* first that has a tile draws, the empty tile is drawn when none has
DrawFirst(sets, k, r, fg, bg) ==
    IF k > Len(sets) THEN EmptyTile(bg)
    ELSE IF GetTile(sets[k], r) THEN DrawTile(sets[k], r, fg, bg)
    ELSE DrawFirst(sets, k + 1, r, fg, bg)

\* DrawTile: the cell that drawing r in fg over bg leaves
DrawTile(t, r, fg, bg) ==
    CASE t.kind = "font" ->
           IF r \in t.glyphs THEN Glyph(t.name, r, fg, bg)
           ELSE DrawTile(Fallback, r, fg, bg)
      [] t.kind = "fallback" -> EmptyTile(bg)
      [] t.kind = "multi" -> DrawFirst(t.sets, 1, r, fg, bg)
      [] t.kind = "remap" -> DrawTile(t.base, Remapped(t, r), fg, bg)

\* the longest list of a multi-set
MaxSets == 2

\* the code points drawn, the fonts and the multi-sets over them
TileRunes == {chA, chQ, HLine}

BaseSets ==
    {Font(name, glyphs) : name \in {"regular", "drawing"}, glyphs \in SUBSET TileRunes}
      \cup {Fallback}

MultiSets ==
    UNION {{MultiTileSet(q) : q \in [1..n -> BaseSets]} : n \in 0..MaxSets}

\* the tile specification starts with a tile set, a code point and the
\* colors chosen and nothing drawn
InitTiles ==
    /\ InitDevice
    /\ lastData = <<>>
    /\ before = NewDevice
    /\ writes = 0
    /\ feed = NoFeed
    /\ framed = NotFramed
    /\ writeAt = NoWriteAt
    /\ alphaCell = NoAlphaCell
    /\ InitPump
    /\ \E t \in BaseSets \cup MultiSets : \E r \in TileRunes :
       \E fg \in {ansi(1), ansi(7)} :
          drawn = [called |-> FALSE, set |-> t, r |-> r, fg |-> fg, bg |-> ansi(4)]

\* the call of DrawTile on what was chosen
Draw ==
    /\ ~drawn.called
    /\ drawn' = [drawn EXCEPT !.called = TRUE] @@
                   [cell |-> DrawTile(drawn.set, drawn.r, drawn.fg, drawn.bg)]
    /\ UNCHANGED <<devVars, lastData, before, writes, feed, framed, writeAt, alphaCell,
                   pumpVars>>

NextTiles == Draw

SpecTiles == InitTiles /\ [][NextTiles]_vars

\* the members of a multi-set that have a tile for r
Defining(t, r) == {k \in DOMAIN t.sets : GetTile(t.sets[k], r)}

\* C29: a font asked for a code point it has no glyph for leaves the cell
\* all bg; a multi-set leaves what its first member, in list order, with a
\* tile for the code point draws, and the cell all bg when no member has one
TileFallback ==
    (drawn.called /\ drawn.set.kind = "font" /\ drawn.r \notin drawn.set.glyphs
        => drawn.cell = EmptyTile(drawn.bg))
    /\ (drawn.called /\ drawn.set.kind = "multi" =>
          LET def == Defining(drawn.set, drawn.r)
          IN IF def = {} THEN drawn.cell = EmptyTile(drawn.bg)
             ELSE LET k == CHOOSE k \in def : \A j \in def : k <= j
                  IN drawn.cell =
                        DrawTile(drawn.set.sets[k], drawn.r, drawn.fg, drawn.bg))

\* a multi-set whose first font has no glyph for the code point and whose
\* second has one has drawn the glyph of the second
TileFallbackWitness ==
    /\ drawn.called
    /\ drawn.set.kind = "multi"
    /\ Len(drawn.set.sets) = 2
    /\ drawn.set.sets[1].kind = "font"
    /\ drawn.r \notin drawn.set.sets[1].glyphs
    /\ drawn.set.sets[2].kind = "font"
    /\ drawn.cell = Glyph(drawn.set.sets[2].name, drawn.r, drawn.fg, drawn.bg)

(* ------------------------------ charsets ------------------------------- *)
\* the fonts New builds the device's tile sets from, with the code points
\* drawn here
Regular8x16 == Font("Regular8x16", {chA, chQ})

DrawingTiles == Font("drawing", {HLine})

Bold8x16 == Font("Bold8x16", {chA, chQ})

\* altToUnicode, at the code points drawn here
altToUnicode == (chQ :> HLine)

\* New: Render.CharSet, Render.AltCharSet and Render.BoldCharSet
CharSet == MultiTileSet(<<Regular8x16, DrawingTiles>>)

AltCharSet == Remap(CharSet, altToUnicode)

\* the tile set behind a value of active.tileSet
TileSetOf(name) ==
    CASE name = "CharSet" -> CharSet
      [] name = "AltCharSet" -> AltCharSet
      [] name = "BoldCharSet" -> Bold8x16
      [] name = "AltCharSet+BoldCharSet" -> MultiTileSet(<<AltCharSet, Bold8x16>>)

\* what a cell of the screen shows, its glyph drawn by its tile set
Shown(cell) == DrawTile(TileSetOf(cell.ts), cell.r, cell.fg, cell.bg)

\* ESC ( c and ESC ) c
Designate(k, c) == <<ESC, IF k = 0 THEN chLParen ELSE chRParen, c>>

\* what the charset specification writes
CharsetInputs ==
    {Designate(k, c) : k \in {0, 1}, c \in {ch0, chB}}
      \cup {<<SO>>, <<SI>>, <<chQ>>, <<SO, chQ, SI>>, <<SI, chQ>>, <<SO, chQ>>,
            Csi(Num(1), 109), Sgr0, <<CR>>}

WriteCharset ==
    /\ writes < MaxWrites
    /\ \E data \in CharsetInputs : Write(data, 0)
    /\ UNCHANGED <<feed, framed, drawn, writeAt, alphaCell, pumpVars>>

NextCharset == WriteCharset

SpecCharset == Init /\ [][NextCharset]_vars

\* the selection rule of updateAttr: the tile set for binding sel under attr a
Selected(sel, a) ==
    IF sel = "CharSet"
    THEN (IF a.Bold THEN "BoldCharSet" ELSE "CharSet")
    ELSE (IF a.Bold THEN "AltCharSet+BoldCharSet" ELSE "AltCharSet")

\* the cell the latest printable went to
LastCell == screen[<<cursor.col - 1, cursor.row>>]

\* C30: SO selects G1 and SI selects G0, ESC ( 0/B rebinds G0 alone and
\* ESC ) 0/B rebinds G1 alone; the active tile set is the one the selection
\* rule yields from g[shift], a printable is drawn with the one in force as
\* it is written; with the default bindings q after SO shows U+2500 and q
\* after SI shows q
CharsetSelection ==
    /\ lastData = <<SO>> => (active.shift = 1 /\ active.g = before.active.g)
    /\ lastData = <<SI>> => (active.shift = 0 /\ active.g = before.active.g)
    /\ \A k \in {0, 1} : \A c \in {ch0, chB} :
          lastData = Designate(k, c) =>
              /\ active.g[k + 1] = (IF c = ch0 THEN "AltCharSet" ELSE "CharSet")
              /\ active.g[2 - k] = before.active.g[2 - k]
              /\ active.shift = before.active.shift
    /\ active.tileSet = Selected(active.g[active.shift + 1], attr)
    /\ lastData = <<chQ>> =>
          LastCell.ts = Selected(before.active.g[before.active.shift + 1], attr)
    /\ lastData \in {<<SO, chQ, SI>>, <<SO, chQ>>} =>
          /\ LastCell.ts = Selected(before.active.g[2], attr)
          /\ before.active.g = DefaultG =>
                Shown(LastCell) = DrawTile(CharSet, HLine, active.fg, active.bg)
    /\ lastData = <<SI, chQ>> =>
          /\ LastCell.ts = Selected(before.active.g[1], attr)
          /\ before.active.g = DefaultG =>
                (Shown(LastCell).r = chQ /\ Shown(LastCell).ts \in {"Regular8x16", "Bold8x16"})

\* q was written between SO and SI with the default bindings, after a Write
\* that had left G1 shifted in, and shows U+2500 from the drawing tiles
CharsetSelectionWitness ==
    /\ lastData = <<SO, chQ, SI>>
    /\ before.active.g = DefaultG
    /\ before.active.shift = 1
    /\ active.shift = 0
    /\ Shown(LastCell) = Glyph("drawing", HLine, active.fg, active.bg)

(* -------------------------------- WriteAt ------------------------------ *)
\* a return of WriteAt that leaves the cursor where Write left it
WriteAtKeep(d, col, row) == d

\* the deferred function of WriteAt: the cursor is hidden, put back to the
\* column and row saved on entry, and shown
WriteAtRestore(d, col, row) ==
    IF d.panicked THEN [d EXCEPT !.cursor.col = col, !.cursor.row = row]
    ELSE showCursor([hideCursor(d) EXCEPT !.cursor.col = col, !.cursor.row = row])

\* WriteAt up to its call of Write: the cursor is un-inverted and moved to
\* the cell off, clamped to the cells of the terminal
WriteAtMove(d, off) ==
    LET o == bound(off, 0, Rows * Cols - 1)
    IN [hideCursor(d) EXCEPT !.cursor.row = o \div Cols, !.cursor.col = o % Cols]

\* Device.WriteAt, run without interruption
WriteAtAll(d, p, off, slack) ==
    WriteAtRestore(WriteAll(WriteAtMove(d, off), p, slack),
                   d.cursor.col, d.cursor.row)

\* the offsets and payloads of the WriteAt specification, and what its
\* Writes write
Offsets == {0 - 1, 1, Cols, Rows * Cols + 3}

Payloads == {<<chA>>, <<LF, chA>>, <<ESC, 55>>}

WriteAtInputs == {<<chA>>, FullLine, <<ESC, chLBrack>>}

WritePlain ==
    /\ writes < MaxWrites
    /\ \E data \in WriteAtInputs : Write(data, 0)
    /\ UNCHANGED <<feed, framed, drawn, writeAt, alphaCell, pumpVars>>

\* a call of WriteAt that nothing interrupts
WriteAtCall ==
    /\ writes < MaxWrites
    /\ ~panicked
    /\ cursor.col <= Cols + MaxOver
    /\ \E p \in Payloads : \E off \in Offsets :
          /\ Returned(WriteAtAll(Dev, p, off, 0))
          /\ lastData' = p
          /\ writeAt' = [pc |-> "idle", n |-> writes + 1, off |-> off,
                         col |-> cursor.col, row |-> cursor.row, p |-> p,
                         at |-> <<WriteAtMove(Dev, off).cursor.col,
                                  WriteAtMove(Dev, off).cursor.row>>]
    /\ before' = Dev
    /\ writes' = writes + 1
    /\ UNCHANGED <<feed, framed, drawn, alphaCell, pumpVars>>

NextWriteAt == WritePlain \/ WriteAtCall

SpecWriteAt == Init /\ [][NextWriteAt]_vars

\* the latest call was a WriteAt
ByWriteAt == writes > 0 /\ writeAt.n = writes

\* the cell of offset off, clamped to the cells of the terminal
CellAt(off) ==
    LET o == Max2(0, Min2(off, Rows * Cols - 1))
    IN <<o % Cols, o \div Cols>>

\* C31: WriteAt returns with the cursor in the column and row it found and
\* painted as cursor.show asks, whatever the payload; a printable payload
\* that finds nothing buffered is drawn in the cell of the offset, clamped
\* to 0..rows*cols-1
WriteAtFrame ==
    (ByWriteAt /\ ~panicked) =>
        /\ cursor.col = before.cursor.col
        /\ cursor.row = before.cursor.row
        /\ cursor.visible = cursor.show
        /\ (lastData = <<chA>> /\ before.inputBuf = <<>>) =>
              /\ screen[CellAt(writeAt.off)].r = chA
              /\ \A q \in GridCells \ {CellAt(writeAt.off)} :
                    hideCursor(Dev).screen[q] = hideCursor(before).screen[q]

\* WriteAt of a printable at an offset past the last cell, called with the
\* cursor waiting past the last column of the first row
WriteAtFrameWitness ==
    /\ ByWriteAt
    /\ lastData = <<chA>>
    /\ writeAt.off = Rows * Cols + 3
    /\ before.inputBuf = <<>>
    /\ before.cursor.col = Cols
    /\ cursor.col = Cols
    /\ cursor.row = 0
    /\ screen[<<Cols - 1, Rows - 1>>].r = chA

(* --------------------------- what Write reports ------------------------ *)
\* utf8.RuneLen: the bytes that encode one rune of data
RuneLen(r) == IF r < 128 THEN 1 ELSE IF r < 2048 THEN 2 ELSE IF r < 65536 THEN 3 ELSE 4

\* len(data) for the bytes that decode to the runes of data
RECURSIVE ByteLen(_)
ByteLen(data) == IF data = <<>> THEN 0 ELSE RuneLen(Head(data)) + ByteLen(Tail(data))

\* what Device.Write(data) hands back on device d: len(data) and a nil error
\* from its return statement, or nothing when the call panics
WriteResult(d, data) ==
    IF WriteAll(d, data, 0).panicked
    THEN [returned |-> FALSE, n |-> 0, err |-> "panic"]
    ELSE [returned |-> TRUE, n |-> ByteLen(data), err |-> "nil"]

\* C32: every Write returns n = len(data) and a nil error, also for input
\* that ends inside an escape sequence and for unknown or malformed sequences
WriteReportsLen ==
    writes > 0 =>
        /\ WriteResult(before, lastData).returned
        /\ WriteResult(before, lastData).n = ByteLen(lastData)
        /\ WriteResult(before, lastData).err = "nil"

(* --------------------------- alternate screen -------------------------- *)
\* ESC [ ? 1049 h, ESC [ ? 1049 l, ESC [ ? 47 h, ESC [ ? 47 l
AltOn(n) == Csi(<<chQuest>> \o Num(n), 104)

AltOff(n) == Csi(<<chQuest>> \o Num(n), 108)

\* a visit of the alternate screen in one Write: switch, output, switch back
AltVisit(n, out) == AltOn(n) \o out \o AltOff(n)

AltVisits == {AltVisit(n, out) : n \in {47, 1049}, out \in {<<chA>>, <<LF, chA>>}}

\* what the alternate screen specification writes
AltInputs ==
    AltVisits \cup {<<chA>>, <<LF>>, AltOn(1049), AltOff(1049), AltOn(47)}

\* the host turns Config.AltScreen on
EnableAltScreen ==
    /\ ~panicked
    /\ ~config.AltScreen
    /\ SetDev([Dev EXCEPT !.config.AltScreen = TRUE])
    /\ UNCHANGED <<lastData, before, writes, feed, framed, drawn, writeAt, alphaCell, pumpVars>>

WriteAlt ==
    /\ writes < MaxWrites
    /\ \E data \in AltInputs : Write(data, 0)
    /\ UNCHANGED <<feed, framed, drawn, writeAt, alphaCell, pumpVars>>

NextAlt == EnableAltScreen \/ WriteAlt

SpecAlt == Init /\ [][NextAlt]_vars

\* C33: with alt-screen support on, a visit of the alternate screen leaves
\* the main screen's pixels and the main screen's cursor position as they
\* were before the visit
AltScreenRestores ==
    (writes > 0 /\ before.config.AltScreen /\ lastData \in AltVisits /\ ~panicked) =>
        /\ \A p \in GridCells : hideCursor(Dev).screen[p] = hideCursor(before).screen[p]
        /\ cursor.col = before.cursor.col
        /\ cursor.row = before.cursor.row

(* ------------------------ charsets after a reset ----------------------- *)
\* ESC c and then the printable q, in one Write
ResetThenQ == EscC \o <<chQ>>

\* what the reset specification writes: shifts, designations, the reset
ResetInputs ==
    {<<SO>>, <<SI>>, Designate(0, ch0), Designate(1, chB), <<chQ>>, <<CR, LF>>,
     EscC, ResetThenQ}

WriteReset ==
    /\ writes < MaxWrites
    /\ \E data \in ResetInputs : Write(data, 0)
    /\ UNCHANGED <<feed, framed, drawn, writeAt, alphaCell, pumpVars>>

NextReset == WriteReset

SpecReset == Init /\ [][NextReset]_vars

\* C34: a printable written after ESC c is drawn from the regular tile set,
\* whatever shifts and designations came before the reset
RegularAfterReset ==
    (lastData = ResetThenQ /\ ~panicked) =>
        /\ screen[<<0, 0>>].ts = "CharSet"
        /\ Shown(screen[<<0, 0>>]).r = chQ
        /\ Shown(screen[<<0, 0>>]).ts = "Regular8x16"

(* --------------------------- unknown sequences ------------------------- *)
\* sequences no case of the handlers names: CSI z, CSI 5 z, SGR 99, ESC Z
\* and ESC =
Unknowns ==
    {Csi(<<>>, 122), Csi(Num(5), 122), Csi(Num(99), 109), <<ESC, 90>>, <<ESC, 61>>}

\* what the specification of unknown sequences writes: printables, motion,
\* attributes, a shift, a region, and the unknown sequences alone and
\* followed by a printable
UnknownInputs ==
    {<<chA>>, FullLine, <<LF>>, Csi(Num(1), 109), Csi(Num(31), 109), <<SO>>,
     Region(1, 2)}
      \cup Unknowns \cup {u \o <<chA>> : u \in Unknowns}

WriteUnknown ==
    /\ writes < MaxWrites
    /\ \E data \in UnknownInputs : Write(data, 0)
    /\ UNCHANGED <<feed, framed, drawn, writeAt, alphaCell, pumpVars>>

NextUnknown == WriteUnknown

SpecUnknown == Init /\ [][NextUnknown]_vars

\* the device after Write(data) on device d is the device after Write(rest)
SameAsWriting(d, rest) == SameDevice(Dev, WriteAll(d, rest, 0))

BoldPair == Csi(Num(1), 109) \o Csi(Num(22), 109)

\* foregrounds: base ANSI, bright ANSI, 256-color and truecolor
FgInputs ==
    {Csi(Num(31), 109), Csi(Num(91), 109), Csi(Num(39), 109),
     Csi(Params(<<38, 5, 9>>), 109), Csi(Params(<<38, 5, 16>>), 109),
     Csi(Params(<<38, 2, 1, 2, 3>>), 109), Csi(Params(<<38, 2, 255, 0, 0>>), 109)}

\* what the bold specification writes
BoldInputs == FgInputs \cup {BoldPair, Csi(Num(1), 109), Csi(Num(22), 109), <<chA>>}

WriteBold ==
    /\ writes < MaxWrites
    /\ \E data \in BoldInputs : Write(data, 0)
    /\ UNCHANGED <<feed, framed, drawn, writeAt, alphaCell, pumpVars>>

NextBold == WriteBold

SpecBold == Init /\ [][NextBold]_vars

\* C36: with BoldColors on, SGR 1 followed by SGR 22 leaves the foreground
\* as it was before the pair, whatever the foreground
BoldPairKeepsFg ==
    (lastData = BoldPair /\ before.config.BoldColors /\ ~before.attr.Bold
       /\ ~panicked) =>
        attr.Fg = before.attr.Fg

(* ----------------------------- pixel fills ----------------------------- *)
Red == <<255, 0, 0>>

Green == <<0, 255, 0>>

\* the fills of the fill specification: the first cell, the cell below and
\* right of it, the first row
Fills ==
    {[rect |-> Rect(0, 0, CellW, CellH), color |-> Red],
     [rect |-> Rect(CellW, CellH, 2 * CellW, 2 * CellH), color |-> Green],
     [rect |-> Rect(0, 0, Cols * CellW, CellH), color |-> Green]}

\* ESC / F x1,y1;x2,y2;#rrggbb BEL
FillSeq(f) ==
    <<ESC, chSlash, 70>> \o Num(f.rect.x0) \o <<chComma>> \o Num(f.rect.y0)
        \o <<chSemi>> \o Num(f.rect.x1) \o <<chComma>> \o Num(f.rect.y1)
        \o <<chSemi>> \o colorToHex(f.color) \o <<BEL>>

\* what the fill specification writes
FillInputs == {FillSeq(f) : f \in Fills} \cup {<<chA>>, <<LF>>, FullLine}

WriteFill ==
    /\ writes < MaxWrites
    /\ \E data \in FillInputs : Write(data, 0)
    /\ UNCHANGED <<feed, framed, drawn, writeAt, alphaCell, pumpVars>>

NextFill == WriteFill

SpecFill == Init /\ [][NextFill]_vars

\* C37: a private pixel operation addresses the pixels at render origin +
\* (x, y): ESC / F fills the rectangle it is given, moved by the render
\* origin once
FillAtOrigin ==
    \A f \in Fills :
        (lastData = FillSeq(f) /\ before.inputBuf = <<>> /\ ~panicked) =>
            hideCursor(Dev).screen =
                FillCells(hideCursor(before).screen,
                          RectIntersect(RectAdd(f.rect, RenderBounds.x0, RenderBounds.y0),
                                        RenderBounds),
                          f.color)

(* --------------------- WriteAt beside a concurrent Write --------------- *)
\* WriteAt takes no lock of its own: it reads and moves the cursor, calls
\* Write, which locks, and restores the cursor after Write has unlocked.  Its
\* statements are steps that interleave with the steps of a Write on another
\* goroutine; pump.pc = "write" is that Write holding the lock.  The calls
\* of Write and the calls of WriteAt together are at most MaxCalls.
RaceInputs == {<<chA>>, <<chA, chA>>, <<chA, LF>>}

RaceOffsets == {Cols, Rows * Cols - 1}

\* a Write on another goroutine takes the lock
RaceEnter ==
    /\ pump.pc = "select"
    /\ ~panicked
    /\ writes + writeAt.n < MaxCalls
    /\ \E data \in RaceInputs : WriteEntered(data)

\* col, row := d.cursor.col, d.cursor.row
AtSave ==
    /\ writeAt.pc \in {"idle", "done"}
    /\ writes + writeAt.n < MaxCalls
    /\ ~panicked
    /\ \E off \in RaceOffsets :
          writeAt' = [pc |-> "saved", n |-> writeAt.n + 1, off |-> off,
                      col |-> cursor.col, row |-> cursor.row, p |-> <<chB>>,
                      at |-> <<0, 0>>]
    /\ UNCHANGED <<devVars, lastData, before, writes, feed, framed, drawn, alphaCell, pumpVars>>

\* if d.cursor.visible { d.toggleCursor() }
AtHide ==
    /\ writeAt.pc = "saved"
    /\ SetDev(hideCursor(Dev))
    /\ writeAt' = [writeAt EXCEPT !.pc = "hidden"]
    /\ UNCHANGED <<lastData, before, writes, feed, framed, drawn, alphaCell, pumpVars>>

\* off = bound(...); d.cursor.row = off / cols; d.cursor.col = off % cols
AtMove ==
    /\ writeAt.pc = "hidden"
    /\ SetDev(WriteAtMove(Dev, writeAt.off))
    /\ writeAt' = [writeAt EXCEPT !.pc = "moved"]
    /\ UNCHANGED <<lastData, before, writes, feed, framed, drawn, alphaCell, pumpVars>>

\* return d.Write(p): the lock is free, the payload is written from where
\* the cursor is now
AtWrite ==
    /\ writeAt.pc = "moved"
    /\ pump.pc = "select"
    /\ ~panicked
    /\ cursor.col <= Cols + MaxOver
    /\ Returned(WriteAll(Dev, writeAt.p, 0))
    /\ writeAt' = [writeAt EXCEPT !.pc = "written", !.at = <<cursor.col, cursor.row>>]
    /\ UNCHANGED <<lastData, before, writes, feed, framed, drawn, alphaCell, pumpVars>>

\* the deferred function of WriteAt, after Write has unlocked
AtRestore ==
    /\ writeAt.pc = "written"
    /\ SetDev(WriteAtRestore(Dev, writeAt.col, writeAt.row))
    /\ writeAt' = [writeAt EXCEPT !.pc = "done"]
    /\ UNCHANGED <<lastData, before, writes, feed, framed, drawn, alphaCell, pumpVars>>

NextRace ==
    RaceEnter \/ PumpStep \/ WriteReturn \/ AtSave \/ AtHide \/ AtMove \/ AtWrite
      \/ AtRestore

SpecRace == Init /\ [][NextRace]_vars

\* the device a Write of data leaves when it runs alone on the new device
Alone(data) == WriteAll(NewDevice, data, 0)

\* C38: one WriteAt and one concurrent Write, both returned: the payload was
\* written from the cell of its offset, every other cell shows what the
\* Write alone draws, and the cursor is where the Write alone leaves it
WriteAtAtomic ==
    (writes = 1 /\ pump.pc = "select" /\ writeAt.n = 1 /\ writeAt.pc = "done"
       /\ ~panicked) =>
        /\ writeAt.at = CellAt(writeAt.off)
        /\ cursor.col = Alone(lastData).cursor.col
        /\ cursor.row = Alone(lastData).cursor.row
        /\ \A q \in GridCells \ {CellAt(writeAt.off)} :
              hideCursor(Dev).screen[q] = hideCursor(Alone(lastData)).screen[q]

(* ------------------------ scroll region and area ----------------------- *)
\* the pixel rectangle of rows top..bottom over the render width, placed at
\* the render origin
RowsRect(top, bottom) ==
    Rect(OffX, OffY + top * CellH, OffX + Cols * CellW, OffY + (bottom + 1) * CellH)

\* C39: after every Write scrollArea is the empty rectangle exactly when
\* scrollRegion is <<0, rows-1>>, and otherwise it is the pixel rectangle of
\* rows top..bottom over the full render width, offset by the render origin
ScrollAreaOfRegion ==
    (writes > 0 /\ ~panicked) =>
        /\ (scrollArea = ZR) <=> (scrollRegion = <<0, Rows - 1>>)
        /\ RectEmpty(scrollArea) <=> (scrollRegion = <<0, Rows - 1>>)
        /\ scrollRegion # <<0, Rows - 1>> =>
              scrollArea = RowsRect(scrollRegion[1], scrollRegion[2])

\* a region of the last row alone was in force when a line was inserted,
\* which sets a region from the cursor row down and restores the old one
ScrollAreaOfRegionWitness ==
    /\ writes > 2
    /\ lastData = Csi(<<>>, 76)
    /\ scrollRegion = <<Rows - 1, Rows - 1>>
    /\ scrollArea = RowsRect(Rows - 1, Rows - 1)
    /\ before.scrollRegion = scrollRegion
    /\ ~panicked

(* ------------------------------ AlphaCell ------------------------------ *)
\* bit k of the byte v
Bit(v, k) == (v \div (2 ^ k)) % 2

\* v | 1<<k and v &^ 1<<k on a byte
SetBit(v, k) == IF Bit(v, k) = 1 THEN v ELSE v + 2 ^ k

ClearBit(v, k) == IF Bit(v, k) = 1 THEN v - 2 ^ k ELSE v

\* colors handed to Set: a BitColor, or a color of 16-bit alpha a
BitColor(on) == [kind |-> "bit", on |-> on, a |-> IF on THEN 65535 ELSE 0]

AlphaColor(a) == [kind |-> "alpha", on |-> FALSE, a |-> a]

\* bitColorModel: a BitColor as it is, any other color on when its alpha is
\* more than half
bitColorModel(c) == IF c.kind = "bit" THEN c.on ELSE c.a > (255 * 257) \div 2

\* AlphaCell.At: (Pix[y] << x) & 8 == 8, the shift done in uint8
AlphaCellAt(pix, x, y) == Bit(uint8(pix[y] * 2 ^ x), 3) = 1

\* AlphaCell.Set: Pix[y] |= 0x80 >> x for an on color, Pix[y] &^= 0x80 >> x
\* for an off color
AlphaCellSet(pix, x, y, c) ==
    [pix EXCEPT ![y] = IF bitColorModel(c) THEN SetBit(@, 7 - x) ELSE ClearBit(@, 7 - x)]

\* the rows the cells of the AlphaCell specification are made of, and the
\* colors set
PixRows == {0, 8, 128, 165, 255}

SetColors ==
    {BitColor(TRUE), BitColor(FALSE), AlphaColor(0), AlphaColor(32767),
     AlphaColor(32768), AlphaColor(65535)}

\* the AlphaCell specification starts with a cell whose rows are a and b in
\* turn, a pixel and a color chosen and nothing set
InitAlphaCell ==
    /\ InitDevice
    /\ lastData = <<>>
    /\ before = NewDevice
    /\ writes = 0
    /\ feed = NoFeed
    /\ framed = NotFramed
    /\ drawn = NotDrawn
    /\ writeAt = NoWriteAt
    /\ InitPump
    /\ \E a \in PixRows : \E b \in PixRows :
       \E x \in 0..(CellW - 1) : \E y \in {0, 1, CellH - 1} : \E c \in SetColors :
          alphaCell = [called |-> FALSE, x |-> x, y |-> y, c |-> c,
                       was |-> [k \in 0..(CellH - 1) |-> IF k % 2 = 0 THEN a ELSE b],
                       pix |-> [k \in 0..(CellH - 1) |-> IF k % 2 = 0 THEN a ELSE b]]

\* the call of Set on what was chosen
SetPixel ==
    /\ ~alphaCell.called
    /\ alphaCell' = [alphaCell EXCEPT !.called = TRUE,
                        !.pix = AlphaCellSet(@, alphaCell.x, alphaCell.y, alphaCell.c)]
    /\ UNCHANGED <<devVars, lastData, before, writes, feed, framed, drawn, writeAt,
                   pumpVars>>

NextAlphaCell == SetPixel

SpecAlphaCell == InitAlphaCell /\ [][NextAlphaCell]_vars

\* C40: after Set(x, y, c) the value At(x, y) is the on/off bit of c, and At
\* of every other pixel of the cell is what it was
AlphaCellSetThenAt ==
    alphaCell.called =>
        /\ AlphaCellAt(alphaCell.pix, alphaCell.x, alphaCell.y) = bitColorModel(alphaCell.c)
        /\ \A x \in 0..(CellW - 1) : \A y \in 0..(CellH - 1) :
              (x # alphaCell.x \/ y # alphaCell.y) =>
                  AlphaCellAt(alphaCell.pix, x, y) = AlphaCellAt(alphaCell.was, x, y)
====
